---- MODULE Spec2Model ----
(***************************************************************************)
(* A model of the validation core of petstore-api-tests:                   *)
(*   - ContractValidator (src/src/utils/contractValidator.ts)              *)
(*   - SchemaValidator   (src/unnamed/part_007, schemaValidator.ts and the *)
(*                        older validators.ts that precedes it)            *)
(* Every operation is a synchronous function of its arguments and of the   *)
(* OpenAPI document held by the validator.  A behaviour of Spec is: a      *)
(* validator is constructed over a document, one call is made, and the     *)
(* call either returns a value or throws.  A behaviour of SessionSpec is a *)
(* caller making several calls on one validator, keeping the results and   *)
(* changing some of them between the calls.  A behaviour of ClientSpec is  *)
(* a process writing the credentials of AuthManager and making requests    *)
(* through HttpClient and PetstoreClient (src/unnamed/part_005).  A        *)
(* behaviour of WalkSpec is one validateResponseAgainstSchema call traced  *)
(* activation by activation.                                               *)
(***************************************************************************)
EXTENDS Integers, Sequences, FiniteSets, TLC

VARIABLES
    spec,       \* the OpenAPISpec given to the ContractValidator constructor
    call,       \* the operation invoked and its arguments
    outcome,    \* what the call did: not yet run, returned a value, or threw
    history,    \* the calls a session has made, each with what the caller got
    heap,       \* the errors and warnings arrays allocated so far, by reference
    env,        \* process.env when the modules were loaded
    apiKey,     \* AuthManager.apiKey
    oauthToken, \* AuthManager.oauthToken
    log,        \* the writes made to the credentials, oldest first
    exchange,   \* the request made since the last write, with what came of it
    stack,      \* the activations of validateResponseAgainstSchema, outermost first
    walk        \* a traced validation: idle, running, returned or threw, and
                \* the most activations it has had at once

validatorVars == <<spec, call, outcome, history, heap>>
clientVars == <<env, apiKey, oauthToken, log, exchange>>
walkVars == <<stack, walk>>
vars == <<spec, call, outcome, history, heap, env, apiKey, oauthToken, log,
          exchange, stack, walk>>

(***************************************************************************)
(* Bounds of the model.                                                    *)
(***************************************************************************)
\* Longest JSON array in the universe of values.
MaxItems == 2

\* Longest errors or warnings list given to formatValidationErrors.
MaxMessages == 2

\* Most calls made in one session.
MaxCalls == 3

\* Most writes made to the credentials in one run of a client.
MaxWrites == 2

\* Deepest chain of nested categories given to a traced validation.
MaxDepth == 3

\* Most activations a traced validation may have at once; the chains need
\* MaxDepth + 1.
MaxStack == MaxDepth + 3

(***************************************************************************)
(* JSON values.  A value is a record [t, v]: t is the JavaScript kind and  *)
(* v the payload.  A number is held in tenths (50 is 5, 15 is 1.5), so     *)
(* Number.isInteger is a computation.  An object is its set of             *)
(* <<key, value>> pairs; an array is a sequence.                           *)
(***************************************************************************)
JNull == [t |-> "null", v |-> 0]
JBool(b) == [t |-> "boolean", v |-> b]
JNum(tenths) == [t |-> "number", v |-> tenths]
JStr(s) == [t |-> "string", v |-> s]
JArr(items) == [t |-> "array", v |-> items]
JObj(pairs) == [t |-> "object", v |-> pairs]

\* Array.isArray(value)
IsArray(value) == value.t = "array"

TypeOfTakingAllForObjects(value) ==
    IF value.t = "null" THEN "null" ELSE "object"

\* typeof value
TypeOf(value) ==
    CASE value.t = "null" -> "object"
      [] value.t = "array" -> "object"
      [] OTHER -> value.t

\* Number.isInteger(value), for a number
IsInteger(value) == value.v % 10 = 0

\* `name in value` is a TypeError unless value is an object (arrays included).
InThrows(value) == TypeOf(value) # "object" \/ value.t = "null"

\* `name in value`, for an object or an array.  The property names of the
\* model are never array indices nor "length", so an array has none of them.
In(name, value) ==
    /\ value.t = "object"
    /\ \E p \in value.v : p[1] = name

\* value[name], for a name that is in value
Get(value, name) == (CHOOSE p \in value.v : p[1] = name)[2]

(***************************************************************************)
(* Strings whose letter case matters (HTTP methods) are sequences of       *)
(* one-character strings, so that toLowerCase and toUpperCase convert.     *)
(***************************************************************************)
LowerLetters == <<"a","b","c","d","e","f","g","h","i","j","k","l","m",
                  "n","o","p","q","r","s","t","u","v","w","x","y","z">>
UpperLetters == <<"A","B","C","D","E","F","G","H","I","J","K","L","M",
                  "N","O","P","Q","R","S","T","U","V","W","X","Y","Z">>

IndexIn(letters, c) ==
    IF \E i \in DOMAIN letters : letters[i] = c
    THEN CHOOSE i \in DOMAIN letters : letters[i] = c
    ELSE 0

toLowerCaseIdentity(s) == s

\* String.prototype.toLowerCase
toLowerCase(s) ==
    [i \in DOMAIN s |->
        IF IndexIn(UpperLetters, s[i]) # 0
        THEN LowerLetters[IndexIn(UpperLetters, s[i])]
        ELSE s[i]]

\* String.prototype.toUpperCase
toUpperCase(s) ==
    [i \in DOMAIN s |->
        IF IndexIn(LowerLetters, s[i]) # 0
        THEN UpperLetters[IndexIn(LowerLetters, s[i])]
        ELSE s[i]]

(***************************************************************************)
(* ValidationResult and the two ways a call ends.                          *)
(***************************************************************************)
ValidationResult(valid, errors, warnings) ==
    [valid |-> valid, errors |-> errors, warnings |-> warnings]

Return(value) == [kind |-> "return", value |-> value]
Throw(name, message) == [kind |-> "throw", name |-> name, message |-> message]
NotRun == [kind |-> "pending"]

\* The TypeError of `name in value` on a value that is not an object.
InTypeError == Throw("TypeError", "Cannot use 'in' operator")

(***************************************************************************)
(* The messages.  Each record stands for the template string built in the  *)
(* source; its fields are the interpolated parts.                          *)
(***************************************************************************)
\* `Endpoint '${path}' not found in OpenAPI spec`
EndpointNotFoundMsg(path) == [kind |-> "EndpointNotFound", path |-> path]

\* `Method '${method.toUpperCase()}' not found for endpoint '${path}'`
MethodNotFoundMsg(method, path) ==
    [kind |-> "MethodNotFound", method |-> toUpperCase(method), path |-> path]

\* `Schema '${schemaName}' not found in OpenAPI spec definitions`
SchemaNotInDefinitionsMsg(schemaName) ==
    [kind |-> "SchemaNotInDefinitions", schema |-> schemaName]

\* `Schema '${schemaName}' not found`
SchemaNotFoundMsg(schemaName) == [kind |-> "SchemaNotFound", schema |-> schemaName]

\* `Required field '${requiredField}' is missing from response`
RequiredMissingMsg(requiredField) == [kind |-> "RequiredMissing", field |-> requiredField]

TypeMismatchMsgSwapped(fieldName, actualType, expectedType, value) ==
    [kind |-> "TypeMismatch", field |-> fieldName, actual |-> expectedType,
     expected |-> actualType, value |-> value]

\* `Field '${fieldName}' has type '${actualType}' but schema expects
\*  '${expectedType}' (value: ${JSON.stringify(value)})`
TypeMismatchMsg(fieldName, actualType, expectedType, value) ==
    [kind |-> "TypeMismatch", field |-> fieldName, actual |-> actualType,
     expected |-> expectedType, value |-> value]

\* `Field '${fieldName}' has value '${value}' which is not in allowed enum
\*  values: [${fieldSchema.enum.join(', ')}]`
EnumMismatchMsg(fieldName, value, enum) ==
    [kind |-> "EnumMismatch", field |-> fieldName, value |-> value, enum |-> enum]

\* `${fieldName}[${index}]: ${err}`; index is the zero-based array index
ItemErrorMsg(fieldName, index, err) ==
    [kind |-> "ItemError", field |-> fieldName, index |-> index, err |-> err]

\* `${fieldName}[${index}] has type '${itemType}' but schema expects
\*  '${fieldSchema.items.type}'`
ItemTypeMismatchMsg(fieldName, index, itemType, expectedType) ==
    [kind |-> "ItemTypeMismatch", field |-> fieldName, index |-> index,
     actual |-> itemType, expected |-> expectedType]

(***************************************************************************)
(* Schemas.  A field schema (the value of a `properties` entry) holds the  *)
(* keys validateFieldType reads: $ref, type, enum, items.  An absent $ref  *)
(* is the empty sequence and an absent type the empty string, both falsy   *)
(* in JavaScript as the absent key is.  A $ref is the sequence of its      *)
(* '/'-separated segments.  A definition holds type, required and          *)
(* properties; properties keeps insertion order (Object.entries).          *)
(***************************************************************************)
NoItems == [ref |-> <<>>, type |-> ""]

FieldSchema(ref, type, hasEnum, enum, items) ==
    [ref |-> ref, type |-> type, hasEnum |-> hasEnum, enum |-> enum, items |-> items]

TypeField(type) == FieldSchema(<<>>, type, FALSE, <<>>, NoItems)
RefField(name) == FieldSchema(<<"#", "definitions", name>>, "", FALSE, <<>>, NoItems)
EnumField(type, enum) == FieldSchema(<<>>, type, TRUE, enum, NoItems)
ArrayOfType(type) == FieldSchema(<<>>, "array", FALSE, <<>>, [ref |-> <<>>, type |-> type])
ArrayOfRef(name) ==
    FieldSchema(<<>>, "array", FALSE, <<>>, [ref |-> <<"#", "definitions", name>>, type |-> ""])

Property(name, schema) == [name |-> name, schema |-> schema]

Definition(type, required, properties) ==
    [type |-> type, required |-> required, properties |-> properties]

(***************************************************************************)
(* HTTP method strings.                                                    *)
(***************************************************************************)
M_get == <<"g","e","t">>
M_GET == <<"G","E","T">>
M_Get == <<"G","e","t">>
M_post == <<"p","o","s","t">>
M_POST == <<"P","O","S","T">>
M_put == <<"p","u","t">>
M_delete == <<"d","e","l","e","t","e">>
M_DELETE == <<"D","E","L","E","T","E">>
M_patch == <<"p","a","t","c","h">>
M_PATCH == <<"P","A","T","C","H">>

(***************************************************************************)
(* The OpenAPI documents a validator is constructed over.  paths maps a    *)
(* path to the set of its method keys and pathKeys lists the paths in      *)
(* insertion order.  hasDefinitions tells whether the document has a       *)
(* definitions section; definitions is the sequence of its entries in      *)
(* insertion order.                                                        *)
(***************************************************************************)
StatusEnum == <<JStr("available"), JStr("pending"), JStr("sold")>>

PetstorePaths ==
    [p \in {"/pet", "/pet/{petId}", "/pet/findByStatus"} |->
        CASE p = "/pet" -> {M_post, M_put}
          [] p = "/pet/{petId}" -> {M_get, M_post, M_delete}
          [] OTHER -> {M_get}]

\* The Swagger Petstore definitions the tests name, with Category and Tag
\* requiring `name` so that nested required-field checks have a case.
PetstoreDoc ==
    [paths |-> PetstorePaths,
     pathKeys |-> <<"/pet", "/pet/findByStatus", "/pet/{petId}">>,
     hasDefinitions |-> TRUE,
     definitions |-> <<
        Property("Category", Definition("object", <<"name">>,
            <<Property("id", TypeField("integer")),
              Property("name", TypeField("string"))>>)),
        Property("Tag", Definition("object", <<"name">>,
            <<Property("id", TypeField("integer")),
              Property("name", TypeField("string"))>>)),
        Property("Pet", Definition("object", <<"name", "photoUrls">>,
            <<Property("id", TypeField("integer")),
              Property("category", RefField("Category")),
              Property("name", TypeField("string")),
              Property("photoUrls", ArrayOfType("string")),
              Property("tags", ArrayOfRef("Tag")),
              Property("status", EnumField("string", StatusEnum))>>))
     >>]

\* A document without a definitions section, and with an upper-case method key.
NoDefinitionsDoc ==
    [paths |-> [p \in {"/pet"} |-> {M_post, M_GET}],
     pathKeys |-> <<"/pet">>,
     hasDefinitions |-> FALSE,
     definitions |-> <<>>]

\* A document whose definitions refer to themselves, to a definition that
\* does not exist, and that use the keywords in unusual combinations.
EdgeDoc ==
    [paths |-> [p \in {"/pet"} |-> {M_get}],
     pathKeys |-> <<"/pet">>,
     hasDefinitions |-> TRUE,
     definitions |-> <<
        Property("Scalar", Definition("string", <<>>, <<>>)),
        Property("Tag", Definition("object", <<>>,
            <<Property("id", TypeField("number")),
              Property("name", TypeField("string"))>>)),
        Property("Category", Definition("object", <<"id">>,
            <<Property("category", RefField("Category")),
              Property("tags", ArrayOfRef("Category")),
              Property("name", RefField("Ghost")),
              Property("photoUrls", ArrayOfRef("Ghost"))>>)),
        Property("Pet", Definition("object", <<"id">>,
            <<Property("id", TypeField("number")),
              Property("name", FieldSchema(<<>>, "", TRUE, StatusEnum, NoItems)),
              Property("category",
                  FieldSchema(<<"#", "definitions", "Category">>, "string", TRUE,
                              StatusEnum, NoItems)),
              Property("status", EnumField("integer", StatusEnum)),
              Property("photoUrls", ArrayOfType("integer")),
              Property("tags", ArrayOfRef("Tag"))>>))
     >>]

\* A document whose two definitions refer to each other.
CyclicDoc ==
    [paths |-> [p \in {"/pet"} |-> {M_get}],
     pathKeys |-> <<"/pet">>,
     hasDefinitions |-> TRUE,
     definitions |-> <<
        Property("Category", Definition("object", <<"id">>,
            <<Property("category", RefField("Peer")),
              Property("tags", ArrayOfRef("Peer"))>>)),
        Property("Peer", Definition("object", <<>>,
            <<Property("category", RefField("Category")),
              Property("tags", ArrayOfRef("Category"))>>))
     >>]

SpecDocs == {PetstoreDoc, NoDefinitionsDoc, EdgeDoc}

\* Object.keys(doc.paths): `doc.paths[path]` is truthy exactly for these.
HasPath(doc, path) == path \in DOMAIN doc.paths

\* doc.definitions[name], or Undefined.  Only called when doc.definitions is set.
Undefined == [undefined |-> TRUE]

DefinitionOf(doc, name) ==
    IF \E i \in DOMAIN doc.definitions : doc.definitions[i].name = name
    THEN (doc.definitions[CHOOSE i \in DOMAIN doc.definitions :
                             doc.definitions[i].name = name]).schema
    ELSE Undefined

(***************************************************************************)
(* ContractValidator.                                                      *)
(***************************************************************************)
\* An omitted argument.
Omitted == [omitted |-> TRUE]

\* A method argument: given, or left to the default parameter value.
Given(method) == [given |-> TRUE, v |-> method]
NotGiven == [given |-> FALSE, v |-> <<>>]

\* The default parameter value `method = 'get'`.
MethodOrDefault(methodArg) == IF methodArg.given THEN methodArg.v ELSE M_get

validateEndpointExistsNoShortCircuit(doc, path, methodArg) ==
    LET method == MethodOrDefault(methodArg)
        e1 == IF ~HasPath(doc, path) THEN <<EndpointNotFoundMsg(path)>> ELSE <<>>
        e2 == IF ~HasPath(doc, path) \/ toLowerCase(method) \notin doc.paths[path]
              THEN <<MethodNotFoundMsg(method, path)>> ELSE <<>>
    IN  Return(ValidationResult(Len(e1 \o e2) = 0, e1 \o e2, <<>>))

validateEndpointExists(doc, path, methodArg) ==
    LET method == MethodOrDefault(methodArg) IN
    IF ~HasPath(doc, path)
    THEN Return(ValidationResult(FALSE, <<EndpointNotFoundMsg(path)>>, <<>>))
    ELSE IF toLowerCase(method) \notin doc.paths[path]
    THEN Return(ValidationResult(FALSE, <<MethodNotFoundMsg(method, path)>>, <<>>))
    ELSE Return(ValidationResult(TRUE, <<>>, <<>>))

validateSchemaExistsIgnoringSection(doc, schemaName) ==
    IF DefinitionOf(doc, schemaName) = Undefined /\ doc.hasDefinitions
    THEN Return(ValidationResult(FALSE, <<SchemaNotInDefinitionsMsg(schemaName)>>, <<>>))
    ELSE Return(ValidationResult(TRUE, <<>>, <<>>))

validateSchemaExists(doc, schemaName) ==
    IF ~doc.hasDefinitions \/ DefinitionOf(doc, schemaName) = Undefined
    THEN Return(ValidationResult(FALSE, <<SchemaNotInDefinitionsMsg(schemaName)>>, <<>>))
    ELSE Return(ValidationResult(TRUE, <<>>, <<>>))

getSchemaThrowingOnMissingName(doc, schemaName) ==
    IF ~doc.hasDefinitions \/ DefinitionOf(doc, schemaName) = Undefined
    THEN Throw("Error", "No definitions found in OpenAPI spec")
    ELSE Return(DefinitionOf(doc, schemaName))

getSchema(doc, schemaName) ==
    IF ~doc.hasDefinitions
    THEN Throw("Error", "No definitions found in OpenAPI spec")
    ELSE Return(DefinitionOf(doc, schemaName))

getJsonTypeNoInteger(value) ==
    IF value.t = "null" THEN "null"
    ELSE IF IsArray(value) THEN "array"
    ELSE TypeOf(value)

\* getJsonType(value)
getJsonType(value) ==
    IF value.t = "null" THEN "null"
    ELSE IF IsArray(value) THEN "array"
    ELSE IF TypeOf(value) = "number"
         THEN (IF IsInteger(value) THEN "integer" ELSE "number")
    ELSE TypeOf(value)

\* `const strictRequired = options.strictRequired !== false`; an omitted
\* options argument defaults to {}.
strictRequiredAlways(options) == TRUE

strictRequiredOf(options) ==
    IF options = Omitted THEN TRUE ELSE options.strictRequired # JBool(FALSE)

\* `{ valid: errors.length === 0, errors, warnings }`
resultAlwaysValid(errors, warnings) == ValidationResult(TRUE, errors, warnings)

resultCountingWarnings(errors, warnings) ==
    ValidationResult(Len(errors) = 0 /\ Len(warnings) = 0, errors, warnings)

resultOf(errors, warnings) == ValidationResult(Len(errors) = 0, errors, warnings)

\* The messages of the required-field loop, in the order of schema.required.
\* Only evaluated when `in` does not throw.
missingRequired(required, response) ==
    LET missing == SelectSeq(required, LAMBDA f : ~In(f, response))
    IN  [i \in DOMAIN missing |-> RequiredMissingMsg(missing[i])]

\* fieldSchema.$ref.split('/').pop()
refSchemaNameOf(ref) == ref[Len(ref)]

\* fieldSchema.enum.includes(value): SameValueZero, so an object or an array
\* is never included and a primitive is included when an equal one is listed.
enumIncludes(enum, value) ==
    /\ value.t \notin {"object", "array"}
    /\ \E i \in DOMAIN enum : enum[i] = value

RECURSIVE validateResponseAgainstSchema(_, _, _, _)
RECURSIVE validateFieldType(_, _, _, _)
RECURSIVE checkFields(_, _, _, _, _, _)
RECURSIVE checkItemsUnprefixed(_, _, _, _, _, _)
RECURSIVE checkItemsFirstMismatchOnly(_, _, _, _, _, _)
RECURSIVE checkFieldsFlaggingAbsent(_, _, _, _, _, _)
RECURSIVE checkItems(_, _, _, _, _, _)

checkItemsUnprefixed(doc, fieldName, value, items, i, errors) ==
    IF i > Len(value.v) THEN Return(errors)
    ELSE IF Len(items.ref) # 0
    THEN LET itemValidation ==
                validateResponseAgainstSchema(doc, value.v[i], refSchemaNameOf(items.ref),
                                              Omitted)
         IN  IF itemValidation.kind = "throw" THEN itemValidation
             ELSE checkItemsUnprefixed(doc, fieldName, value, items, i + 1,
                                       errors \o itemValidation.value.errors)
    ELSE IF items.type # "" /\ getJsonType(value.v[i]) # items.type
    THEN checkItemsUnprefixed(doc, fieldName, value, items, i + 1,
            Append(errors, ItemTypeMismatchMsg(fieldName, i - 1,
                                               getJsonType(value.v[i]), items.type)))
    ELSE checkItemsUnprefixed(doc, fieldName, value, items, i + 1, errors)

checkItemsFirstMismatchOnly(doc, fieldName, value, items, i, errors) ==
    IF i > Len(value.v) THEN Return(errors)
    ELSE IF Len(items.ref) # 0
    THEN checkItemsUnprefixed(doc, fieldName, value, items, i, errors)
    ELSE IF items.type # "" /\ getJsonType(value.v[i]) # items.type
    THEN Return(Append(errors, ItemTypeMismatchMsg(fieldName, i - 1,
                                                   getJsonType(value.v[i]), items.type)))
    ELSE checkItemsFirstMismatchOnly(doc, fieldName, value, items, i + 1, errors)

\* value.forEach((item, index) => ...) of validateFieldType, from the
\* one-based position i on; errors is the field's error list so far.
checkItems(doc, fieldName, value, items, i, errors) ==
    IF i > Len(value.v) THEN Return(errors)
    ELSE IF Len(items.ref) # 0
    THEN LET itemValidation ==
                validateResponseAgainstSchema(doc, value.v[i], refSchemaNameOf(items.ref),
                                              Omitted)
         IN  IF itemValidation.kind = "throw" THEN itemValidation
             ELSE checkItems(doc, fieldName, value, items, i + 1,
                    errors \o [k \in DOMAIN itemValidation.value.errors |->
                                 ItemErrorMsg(fieldName, i - 1,
                                              itemValidation.value.errors[k])])
    ELSE IF items.type # "" /\ getJsonType(value.v[i]) # items.type
    THEN checkItems(doc, fieldName, value, items, i + 1,
            Append(errors, ItemTypeMismatchMsg(fieldName, i - 1,
                                               getJsonType(value.v[i]), items.type)))
    ELSE checkItems(doc, fieldName, value, items, i + 1, errors)

validateFieldTypeEnumIfTypeOk(doc, fieldName, value, fieldSchema) ==
    IF Len(fieldSchema.ref) # 0 /\ TypeOf(value) = "object" /\ value.t # "null"
    THEN validateResponseAgainstSchema(doc, value, refSchemaNameOf(fieldSchema.ref), Omitted)
    ELSE IF fieldSchema.type = "" THEN Return(resultOf(<<>>, <<>>))
    ELSE
      LET expectedType == fieldSchema.type
          actualType == getJsonType(value)
          typeErrors ==
              IF expectedType # actualType
              THEN <<TypeMismatchMsg(fieldName, actualType, expectedType, value)>>
              ELSE <<>>
          enumErrors ==
              IF expectedType = actualType /\ fieldSchema.hasEnum
                 /\ ~enumIncludes(fieldSchema.enum, value)
              THEN <<EnumMismatchMsg(fieldName, value, fieldSchema.enum)>>
              ELSE <<>>
          itemsRun ==
              IF expectedType = "array" /\ fieldSchema.items # NoItems /\ IsArray(value)
              THEN checkItems(doc, fieldName, value, fieldSchema.items, 1,
                              typeErrors \o enumErrors)
              ELSE Return(typeErrors \o enumErrors)
      IN  IF itemsRun.kind = "throw" THEN itemsRun
          ELSE Return(resultOf(itemsRun.value, <<>>))

validateFieldTypeRefThenType(doc, fieldName, value, fieldSchema) ==
    IF Len(fieldSchema.ref) # 0 /\ TypeOf(value) = "object" /\ value.t # "null"
    THEN LET refValidation ==
                 validateResponseAgainstSchema(doc, value,
                                               refSchemaNameOf(fieldSchema.ref), Omitted)
         IN  IF refValidation.kind = "throw" \/ fieldSchema.type = ""
                \/ fieldSchema.type = getJsonType(value)
             THEN refValidation
             ELSE Return(resultOf(
                     Append(refValidation.value.errors,
                            TypeMismatchMsg(fieldName, getJsonType(value),
                                            fieldSchema.type, value)),
                     refValidation.value.warnings))
    ELSE IF fieldSchema.type = "" THEN Return(resultOf(<<>>, <<>>))
    ELSE
      LET expectedType == fieldSchema.type
          actualType == getJsonType(value)
          typeErrors ==
              IF expectedType # actualType
              THEN <<TypeMismatchMsg(fieldName, actualType, expectedType, value)>>
              ELSE <<>>
          enumErrors ==
              IF fieldSchema.hasEnum /\ ~enumIncludes(fieldSchema.enum, value)
              THEN <<EnumMismatchMsg(fieldName, value, fieldSchema.enum)>>
              ELSE <<>>
          hasItems == fieldSchema.items # NoItems
          itemsRun ==
              IF expectedType = "array" /\ hasItems /\ IsArray(value)
              THEN checkItems(doc, fieldName, value, fieldSchema.items, 1,
                              typeErrors \o enumErrors)
              ELSE Return(typeErrors \o enumErrors)
      IN  IF itemsRun.kind = "throw" THEN itemsRun
          ELSE Return(resultOf(itemsRun.value, <<>>))

validateFieldTypeEnumWithoutType(doc, fieldName, value, fieldSchema) ==
    IF Len(fieldSchema.ref) # 0 /\ TypeOf(value) = "object" /\ value.t # "null"
    THEN validateResponseAgainstSchema(doc, value, refSchemaNameOf(fieldSchema.ref), Omitted)
    ELSE IF fieldSchema.type = ""
    THEN Return(resultOf(
            IF fieldSchema.hasEnum /\ ~enumIncludes(fieldSchema.enum, value)
            THEN <<EnumMismatchMsg(fieldName, value, fieldSchema.enum)>>
            ELSE <<>>, <<>>))
    ELSE
      LET expectedType == fieldSchema.type
          actualType == getJsonType(value)
          typeErrors ==
              IF expectedType # actualType
              THEN <<TypeMismatchMsg(fieldName, actualType, expectedType, value)>>
              ELSE <<>>
          enumErrors ==
              IF fieldSchema.hasEnum /\ ~enumIncludes(fieldSchema.enum, value)
              THEN <<EnumMismatchMsg(fieldName, value, fieldSchema.enum)>>
              ELSE <<>>
          hasItems == fieldSchema.items # NoItems
          itemsRun ==
              IF expectedType = "array" /\ hasItems /\ IsArray(value)
              THEN checkItems(doc, fieldName, value, fieldSchema.items, 1,
                              typeErrors \o enumErrors)
              ELSE Return(typeErrors \o enumErrors)
      IN  IF itemsRun.kind = "throw" THEN itemsRun
          ELSE Return(resultOf(itemsRun.value, <<>>))

validateFieldType(doc, fieldName, value, fieldSchema) ==
    IF Len(fieldSchema.ref) # 0 /\ TypeOf(value) = "object" /\ value.t # "null"
    THEN validateResponseAgainstSchema(doc, value, refSchemaNameOf(fieldSchema.ref), Omitted)
    ELSE IF fieldSchema.type = "" THEN Return(resultOf(<<>>, <<>>))
    ELSE
      LET expectedType == fieldSchema.type
          actualType == getJsonType(value)
          typeErrors ==
              IF expectedType # actualType
              THEN <<TypeMismatchMsg(fieldName, actualType, expectedType, value)>>
              ELSE <<>>
          enumErrors ==
              IF fieldSchema.hasEnum /\ ~enumIncludes(fieldSchema.enum, value)
              THEN <<EnumMismatchMsg(fieldName, value, fieldSchema.enum)>>
              ELSE <<>>
          hasItems == fieldSchema.items # NoItems
          itemsRun ==
              IF expectedType = "array" /\ hasItems /\ IsArray(value)
              THEN checkItems(doc, fieldName, value, fieldSchema.items, 1,
                              typeErrors \o enumErrors)
              ELSE Return(typeErrors \o enumErrors)
      IN  IF itemsRun.kind = "throw" THEN itemsRun
          ELSE Return(resultOf(itemsRun.value, <<>>))

checkFieldsFlaggingAbsent(doc, response, properties, i, errors, warnings) ==
    IF i > Len(properties) THEN Return(resultOf(errors, warnings))
    ELSE IF InThrows(response) THEN InTypeError
    ELSE IF ~In(properties[i].name, response)
    THEN checkFieldsFlaggingAbsent(doc, response, properties, i + 1,
                                   Append(errors, RequiredMissingMsg(properties[i].name)),
                                   warnings)
    ELSE LET validationType ==
                validateFieldType(doc, properties[i].name,
                                  Get(response, properties[i].name), properties[i].schema)
         IN  IF validationType.kind = "throw" THEN validationType
             ELSE checkFieldsFlaggingAbsent(doc, response, properties, i + 1,
                                            errors \o validationType.value.errors,
                                            warnings \o validationType.value.warnings)

\* The `for (const [fieldName, fieldSchema] of Object.entries(schema.properties))`
\* loop of validateResponseAgainstSchema, from position i on.
checkFields(doc, response, properties, i, errors, warnings) ==
    IF i > Len(properties) THEN Return(resultOf(errors, warnings))
    ELSE IF InThrows(response) THEN InTypeError
    ELSE IF ~In(properties[i].name, response)
    THEN checkFields(doc, response, properties, i + 1, errors, warnings)
    ELSE LET validationType ==
                validateFieldType(doc, properties[i].name,
                                  Get(response, properties[i].name), properties[i].schema)
         IN  IF validationType.kind = "throw" THEN validationType
             ELSE checkFields(doc, response, properties, i + 1,
                              errors \o validationType.value.errors,
                              warnings \o validationType.value.warnings)

validateResponseAgainstSchema(doc, response, schemaName, options) ==
    LET strictRequired == strictRequiredOf(options)
        got == getSchema(doc, schemaName)
    IN  IF got.kind = "throw" THEN got
        ELSE IF got.value = Undefined
        THEN Return(ValidationResult(FALSE, <<SchemaNotFoundMsg(schemaName)>>, <<>>))
        ELSE LET schema == got.value IN
             IF Len(schema.required) > 0 /\ InThrows(response) THEN InTypeError
             ELSE LET msgs == IF Len(schema.required) > 0
                              THEN missingRequired(schema.required, response)
                              ELSE <<>>
                  IN  checkFields(doc, response, schema.properties, 1,
                                  IF strictRequired THEN msgs ELSE <<>>,
                                  IF strictRequired THEN <<>> ELSE msgs)

\* A call of validateResponseAgainstSchema made by the validator itself.
NestedCall(response, schemaName) == [response |-> response, schemaName |-> schemaName]

\* The call throws before it makes any nested call: getSchema throws, or
\* `in` is applied to a response that is not an object.
entryThrows(doc, response, schemaName) ==
    LET got == getSchema(doc, schemaName)
    IN  IF got.kind = "throw" THEN TRUE
        ELSE IF got.value = Undefined THEN FALSE
        ELSE /\ Len(got.value.required) > 0 \/ Len(got.value.properties) > 0
             /\ InThrows(response)

\* `value.forEach((item, index) => ... validateResponseAgainstSchema(item,
\* refSchemaName))`, from position j on.
RECURSIVE itemCalls(_, _, _)
itemCalls(value, refSchemaName, j) ==
    IF j > Len(value.v) THEN <<>>
    ELSE <<NestedCall(value.v[j], refSchemaName)>> \o itemCalls(value, refSchemaName, j + 1)

\* The nested calls validateFieldType makes for one field, in order.
fieldCalls(value, fieldSchema) ==
    IF Len(fieldSchema.ref) # 0 /\ TypeOf(value) = "object" /\ value.t # "null"
    THEN <<NestedCall(value, refSchemaNameOf(fieldSchema.ref))>>
    ELSE IF /\ fieldSchema.type = "array"
            /\ fieldSchema.items # NoItems
            /\ IsArray(value)
            /\ Len(fieldSchema.items.ref) # 0
    THEN itemCalls(value, refSchemaNameOf(fieldSchema.items.ref), 1)
    ELSE <<>>

RECURSIVE propertyCallsOnResponse(_, _, _)
propertyCallsOnResponse(response, properties, i) ==
    IF i > Len(properties) THEN <<>>
    ELSE (IF In(properties[i].name, response)
          THEN fieldCalls(response, properties[i].schema)
          ELSE <<>>)
         \o propertyCallsOnResponse(response, properties, i + 1)

\* The nested calls of the properties loop, from position i on.
RECURSIVE propertyCalls(_, _, _)
propertyCalls(response, properties, i) ==
    IF i > Len(properties) THEN <<>>
    ELSE (IF In(properties[i].name, response)
          THEN fieldCalls(Get(response, properties[i].name), properties[i].schema)
          ELSE <<>>)
         \o propertyCalls(response, properties, i + 1)

\* The nested calls one activation of validateResponseAgainstSchema makes
\* when none of them throws, in order.
nestedCalls(doc, response, schemaName) ==
    IF entryThrows(doc, response, schemaName) THEN <<>>
    ELSE LET schema == getSchema(doc, schemaName).value
         IN  IF schema = Undefined THEN <<>>
             ELSE propertyCalls(response, schema.properties, 1)

\* An activation: its arguments and the nested calls it has still to make.
Activation(doc, response, schemaName) ==
    [response |-> response, schemaName |-> schemaName,
     pending |-> nestedCalls(doc, response, schemaName)]

\* Object.keys(this.spec.paths)
getEndpointPaths(doc) == Return(doc.pathKeys)

\* this.spec.definitions ? Object.keys(this.spec.definitions) : []
getSchemaNames(doc) ==
    IF doc.hasDefinitions
    THEN Return([i \in DOMAIN doc.definitions |-> doc.definitions[i].name])
    ELSE Return(<<>>)

\* Text built by formatValidationErrors is a sequence of pieces: the literal
\* parts of the template strings, the interpolated messages, and the
\* separator of join.
NewLine == "\n"
ErrorsHeader == "Validation Errors:"
WarningsHeader == "Warnings:"
\* The literal `  <cross mark> ` that starts an error line, and the literal
\* `  <warning sign>  ` that starts a warning line.
ErrorMark == "  [cross mark] "
WarningMark == "  [warning sign]  "

\* lines.join(separator)
RECURSIVE join(_, _)
join(lines, separator) ==
    IF Len(lines) = 0 THEN <<>>
    ELSE IF Len(lines) = 1 THEN lines[1]
    ELSE lines[1] \o <<separator>> \o join(Tail(lines), separator)

formatValidationErrorsAlwaysHeaders(result) ==
    join(<<<<ErrorsHeader>>>>
         \o [i \in DOMAIN result.errors |-> <<ErrorMark, result.errors[i]>>]
         \o <<<<WarningsHeader>>>>
         \o [i \in DOMAIN result.warnings |-> <<WarningMark, result.warnings[i]>>],
         NewLine)

formatValidationErrors(result) ==
    LET errorLines ==
            IF Len(result.errors) > 0
            THEN <<<<ErrorsHeader>>>>
                 \o [i \in DOMAIN result.errors |-> <<ErrorMark, result.errors[i]>>]
            ELSE <<>>
        warningLines ==
            IF Len(result.warnings) > 0
            THEN <<<<WarningsHeader>>>>
                 \o [i \in DOMAIN result.warnings |-> <<WarningMark, result.warnings[i]>>]
            ELSE <<>>
    IN  join(errorLines \o warningLines, NewLine)

(***************************************************************************)
(* SchemaValidator.  The validators are built on the Ajv library, which    *)
(* the model covers for the keywords type, enum, required, properties and  *)
(* items: compile throws on a schema that is not a valid JSON Schema, and  *)
(* with allErrors a compiled validator reports every failure.              *)
(***************************************************************************)
NoJsonSchema == [absent |-> TRUE]

JsonSchema(type, required, properties, hasEnum, enum, items) ==
    [type |-> type, required |-> required, properties |-> properties,
     hasEnum |-> hasEnum, enum |-> enum, items |-> items]

JsonType(type) == JsonSchema(type, <<>>, <<>>, FALSE, <<>>, NoJsonSchema)

\* src/schemas/pet.schema.ts
petSchema ==
    JsonSchema("object", <<"id", "name">>,
        <<Property("id", JsonType("number")),
          Property("name", JsonType("string")),
          Property("category",
              JsonSchema("object", <<>>,
                  <<Property("id", JsonType("number")),
                    Property("name", JsonType("string"))>>,
                  FALSE, <<>>, NoJsonSchema)),
          Property("photoUrls",
              JsonSchema("array", <<>>, <<>>, FALSE, <<>>, JsonType("string"))),
          Property("tags",
              JsonSchema("array", <<>>, <<>>, FALSE, <<>>,
                  JsonSchema("object", <<>>,
                      <<Property("id", JsonType("number")),
                        Property("name", JsonType("string"))>>,
                      FALSE, <<>>, NoJsonSchema))),
          Property("status",
              JsonSchema("string", <<>>, <<>>, TRUE, StatusEnum, NoJsonSchema))>>,
        FALSE, <<>>, NoJsonSchema)

\* The schema {} accepts every value.
anySchema == JsonType("")

\* A schema whose `type` is no JSON Schema type does not compile.
malformedSchema == JsonSchema("strin", <<"id">>, <<>>, FALSE, <<>>, NoJsonSchema)

\* A schema with a malformed subschema does not compile either.
malformedNestedSchema ==
    JsonSchema("object", <<>>, <<Property("id", JsonType("int"))>>, FALSE, <<>>,
               NoJsonSchema)

JsonSchemas == {petSchema, anySchema, malformedSchema, malformedNestedSchema}

JsonSchemaTypes == {"null", "boolean", "object", "array", "number", "string", "integer"}

RECURSIVE AjvSchemaIsValid(_)
\* Whether ajv.compile(schema) accepts the schema.
AjvSchemaIsValid(schema) ==
    /\ schema.type \in JsonSchemaTypes \cup {""}
    /\ \A i \in DOMAIN schema.properties : AjvSchemaIsValid(schema.properties[i].schema)
    /\ schema.items = NoJsonSchema \/ AjvSchemaIsValid(schema.items)

\* JSON Schema's `type`: "number" admits every number, "integer" the integral ones.
AjvTypeMatches(type, data) ==
    CASE type = "number" -> data.t = "number"
      [] type = "integer" -> data.t = "number" /\ IsInteger(data)
      [] OTHER -> data.t = type

\* An Ajv ErrorObject.
ErrorObject(instancePath, keyword, message, params) ==
    [instancePath |-> instancePath, keyword |-> keyword, message |-> message,
     params |-> params]

RECURSIVE AjvErrors(_, _, _)
RECURSIVE AjvPropertyErrors(_, _, _, _)
RECURSIVE AjvItemErrors(_, _, _, _)

AjvPropertyErrors(properties, data, instancePath, i) ==
    IF i > Len(properties) THEN <<>>
    ELSE (IF In(properties[i].name, data)
          THEN AjvErrors(properties[i].schema, Get(data, properties[i].name),
                         instancePath \o "/" \o properties[i].name)
          ELSE <<>>)
         \o AjvPropertyErrors(properties, data, instancePath, i + 1)

AjvItemErrors(items, data, instancePath, i) ==
    IF i > Len(data.v) THEN <<>>
    ELSE AjvErrors(items, data.v[i], instancePath \o "/" \o ToString(i - 1))
         \o AjvItemErrors(items, data, instancePath, i + 1)

\* validate.errors of a compiled schema on data (empty when data is valid).
AjvErrors(schema, data, instancePath) ==
    LET enumErrors ==
            IF schema.hasEnum /\ ~(\E i \in DOMAIN schema.enum : schema.enum[i] = data)
            THEN <<ErrorObject(instancePath, "enum",
                               "must be equal to one of the allowed values",
                               [allowedValues |-> schema.enum])>>
            ELSE <<>>
        typeErrors ==
            IF schema.type # "" /\ ~AjvTypeMatches(schema.type, data)
            THEN <<ErrorObject(instancePath, "type", "must be " \o schema.type,
                               [type |-> schema.type])>>
            ELSE <<>>
        missing == SelectSeq(schema.required, LAMBDA f : ~In(f, data))
        objectErrors ==
            IF data.t = "object"
            THEN [i \in DOMAIN missing |->
                    ErrorObject(instancePath, "required",
                                "must have required property '" \o missing[i] \o "'",
                                [missingProperty |-> missing[i]])]
                 \o AjvPropertyErrors(schema.properties, data, instancePath, 1)
            ELSE <<>>
        arrayErrors ==
            IF data.t = "array" /\ schema.items # NoJsonSchema
            THEN AjvItemErrors(schema.items, data, instancePath, 1)
            ELSE <<>>
    IN  enumErrors \o typeErrors \o arrayErrors \o objectErrors

\* const validate = ajv.compile(schema); const valid = validate(data);
\* the outcome is a throw of compile, or [valid, errors].
AjvRun(schema, data) ==
    IF ~AjvSchemaIsValid(schema)
    THEN Throw("Error", "schema is invalid")
    ELSE LET errors == AjvErrors(schema, data, "")
         IN  Return([valid |-> Len(errors) = 0, errors |-> errors])

\* `  - ${path}: ${message} ${params !== '{}' ? params : ''}`: the text up to
\* the parameters, and the parameters JSON.stringify renders.
errorLine(err) ==
    [text |-> "  - " \o (IF err.instancePath = "" THEN "root" ELSE err.instancePath)
              \o ": " \o (IF err.message = "" THEN "validation failed" ELSE err.message),
     params |-> err.params]

\* `Schema validation failed:\n${errorMessages}\n\nData: ${JSON.stringify(data,
\*  null, 2)}`: the literal, the lines joined by '\n', and the data echoed.
validationFailedMessage(errors, data) ==
    [literal |-> "Schema validation failed:",
     errorMessages |-> [i \in DOMAIN errors |-> errorLine(errors[i])],
     data |-> data]

SchemaValidationErrorFirstOnly(errors, data) ==
    [kind |-> "throw", name |-> "SchemaValidationError", errors |-> <<errors[1]>>,
     data |-> data, message |-> validationFailedMessage(<<errors[1]>>, data)]

\* new SchemaValidationError(errors, data)
SchemaValidationError(errors, data) ==
    [kind |-> "throw", name |-> "SchemaValidationError", errors |-> errors,
     data |-> data, message |-> validationFailedMessage(errors, data)]

\* SchemaValidator.validateSchema (schemaValidator.ts)
validateSchema(schema, data) ==
    LET ran == AjvRun(schema, data) IN
    IF ran.kind = "throw" THEN ran
    ELSE IF ~ran.value.valid /\ Len(ran.value.errors) > 0
    THEN SchemaValidationError(ran.value.errors, data)
    ELSE Return(data)

\* `${err.instancePath || 'root'}: ${err.message}`
describeError(err) ==
    (IF err.instancePath = "" THEN "root" ELSE err.instancePath) \o ": " \o err.message

validateNotCatching(schema, data) ==
    LET r == validateSchema(schema, data) IN
    IF r.kind = "return"
    THEN Return([valid |-> TRUE, errors |-> <<>>, data |-> r.value])
    ELSE r

validateSwallowingErrors(schema, data) ==
    LET r == validateSchema(schema, data) IN
    IF r.kind = "return"
    THEN Return([valid |-> TRUE, errors |-> <<>>, data |-> r.value])
    ELSE Return([valid |-> TRUE, errors |-> <<>>, data |-> data])

\* SchemaValidator.validate (schemaValidator.ts)
validate(schema, data) ==
    LET r == validateSchema(schema, data) IN
    IF r.kind = "return"
    THEN Return([valid |-> TRUE, errors |-> <<>>, data |-> r.value])
    ELSE IF r.name = "SchemaValidationError"
    THEN Return([valid |-> FALSE,
                 errors |-> [i \in DOMAIN r.errors |-> describeError(r.errors[i])]])
    ELSE r

\* A context argument: a string, or left out.
Context(label) == [given |-> TRUE, v |-> label]
NoContext == [given |-> FALSE, v |-> ""]

\* SchemaValidator.assertValid: a SchemaValidationError is replaced by a new
\* Error whose message is `Schema validation failed${contextMsg}:
\* ${error.message}`; any other error is thrown on as it is.
assertValid(schema, data, context) ==
    LET r == validateSchema(schema, data) IN
    IF r.kind = "return" THEN r
    ELSE IF r.name = "SchemaValidationError"
    THEN Throw("Error",
               [literal |-> "Schema validation failed",
                contextMsg |-> IF context.given /\ context.v # ""
                               THEN " (" \o context.v \o ")" ELSE "",
                message |-> r.message])
    ELSE r

\* SchemaValidator.validate (validators.ts); note the argument order.
validatorsValidate(data, schema) ==
    LET ran == AjvRun(schema, data) IN
    IF ran.kind = "throw" THEN ran
    ELSE IF ~ran.value.valid /\ Len(ran.value.errors) > 0
    THEN Return([valid |-> FALSE,
                 errors |-> [i \in DOMAIN ran.value.errors |->
                               ran.value.errors[i].instancePath \o " "
                               \o ran.value.errors[i].message]])
    ELSE Return([valid |-> TRUE, errors |-> <<>>])

(***************************************************************************)
(* The universe of inputs.                                                 *)
(***************************************************************************)
Atoms == {JNull, JBool(TRUE), JNum(50), JNum(15), JStr("available"), JStr("bogus")}

\* Objects with the keys of one of keySets, each valued in values.
ObjectsOver(keySets, values) ==
    UNION {{JObj({<<k, f[k]>> : k \in K}) : f \in [K -> values]} : K \in keySets}

InnerObjects == ObjectsOver(SUBSET {"id", "name"}, {JNum(50), JStr("available")})

ElementValues ==
    {JNum(50), JObj({<<"id", JNum(50)>>}), JObj({<<"name", JStr("available")>>})}

Arrays == UNION {{JArr(s) : s \in [1..n -> ElementValues]} : n \in 0..MaxItems}

FieldValues == Atoms \cup InnerObjects \cup Arrays

OtherKeys == {"id", "category", "photoUrls", "tags", "status", "extra"}

\* Top-level objects: `name` absent, well typed or ill typed, and at most
\* one other property with any field value.
TopObjects ==
    {JObj(n \cup o) :
        n \in {{}, {<<"name", JStr("available")>>}, {<<"name", JNum(50)>>}},
        o \in {{}} \cup {{<<k, v>>} : k \in OtherKeys, v \in FieldValues}}

Responses == TopObjects \cup Atoms \cup Arrays

SchemaNames == {"Pet", "Category", "Tag", "Scalar", "Ghost"}

OptionsArgs ==
    {Omitted, [strictRequired |-> JBool(TRUE)], [strictRequired |-> JBool(FALSE)]}

PathArgs == {"/pet", "/pet/{petId}", "/pet/findByStatus", "/missing"}

Methods ==
    {M_get, M_GET, M_Get, M_post, M_POST, M_put, M_delete, M_DELETE, M_patch, M_PATCH}

MethodArgs == {NotGiven} \cup {Given(m) : m \in Methods}

EndpointCalls ==
    {[op |-> "validateEndpointExists", path |-> p, method |-> m] :
        p \in PathArgs, m \in MethodArgs}

SchemaExistsCalls ==
    {[op |-> "validateSchemaExists", schemaName |-> n] : n \in SchemaNames}

GetSchemaCalls == {[op |-> "getSchema", schemaName |-> n] : n \in SchemaNames}

ResponseCalls ==
    {[op |-> "validateResponseAgainstSchema", response |-> r, schemaName |-> n,
      options |-> o] : r \in Responses, n \in SchemaNames, o \in OptionsArgs}

SchemaValidatorCalls ==
    {[op |-> o, schema |-> s, data |-> d] :
        o \in {"validateSchema", "validate", "validatorsValidate"},
        s \in JsonSchemas, d \in Responses}

ListingCalls == {[op |-> "getEndpointPaths"], [op |-> "getSchemaNames"]}

\* Messages as formatValidationErrors gets them: rendered strings.
RenderedMessages ==
    {"Schema 'Ghost' not found", "Required field 'name' is missing from response"}

MessageLists == UNION {[1..n -> RenderedMessages] : n \in 0..MaxMessages}

FormatCalls ==
    {[op |-> "formatValidationErrors", result |-> resultOf(e, w)] :
        e \in MessageLists, w \in MessageLists}

AssertValidCalls ==
    {[op |-> "assertValid", schema |-> s, data |-> d, context |-> c] :
        s \in JsonSchemas, d \in Responses,
        c \in {NoContext, Context(""), Context("create pet")}}

Calls ==
    AssertValidCalls \cup EndpointCalls \cup SchemaExistsCalls \cup GetSchemaCalls \cup ResponseCalls
    \cup SchemaValidatorCalls \cup ListingCalls \cup FormatCalls

(***************************************************************************)
(* The credentials and the HTTP client (part_005: petstore.client.ts,      *)
(* http.ts and auth.ts) and config.ts.  A string that may be undefined is  *)
(* a record [defined, v]; a headers object is its set of <<name, value>>   *)
(* pairs.                                                                  *)
(***************************************************************************)
Unset == [defined |-> FALSE, v |-> ""]
Str(s) == [defined |-> TRUE, v |-> s]

\* ToBoolean of a string or undefined.
Truthy(x) == x.defined /\ x.v # ""

\* a || b
Or(a, b) == IF Truthy(a) THEN a ELSE b

\* config.apiKey and config.oauthToken (config.ts).
config(e) ==
    [baseURL |-> "https://petstore.swagger.io/v2",
     apiKey |-> Or(Or(e.API_KEY, e.PETSTORE_API_KEY), Str("")),
     oauthToken |-> Or(e.PETSTORE_OAUTH_TOKEN, Str(""))]

\* The initialisers of AuthManager.apiKey and AuthManager.oauthToken.
initialApiKey(e) == Or(e.PETSTORE_API_KEY, e.API_KEY)
initialOAuthToken(e) == e.PETSTORE_OAUTH_TOKEN

HasHeader(headers, name) == \E p \in headers : p[1] = name
HeaderOf(headers, name) == (CHOOSE p \in headers : p[1] = name)[2]

\* !!headers[name]
HeaderTruthy(headers, name) == HasHeader(headers, name) /\ HeaderOf(headers, name) # ""

\* headers[name] = value
SetHeader(headers, name, value) ==
    {p \in headers : p[1] # name} \cup {<<name, value>>}

\* Object.assign(target, source)
ObjectAssign(target, source) ==
    {p \in target : ~HasHeader(source, p[1])} \cup source

\* `Bearer ${token}`
Bearer(token) == "Bearer " \o token

\* AuthManager.getAuthHeaders
getAuthHeaders(key, token) ==
    LET withKey == IF Truthy(key) THEN SetHeader({}, "api_key", key.v) ELSE {}
    IN  IF Truthy(token)
        THEN SetHeader(withKey, "Authorization", Bearer(token.v))
        ELSE withKey

hasApiKey(key) == Truthy(key)
hasOAuthToken(token) == Truthy(token)
hasAnyAuth(key, token) == hasApiKey(key) \/ hasOAuthToken(token)

\* AuthManager.setApiKey, setOAuthToken and clearAuth: the credentials after
\* the call.
setApiKey(key, token, newKey) == [apiKey |-> newKey, oauthToken |-> token]
setOAuthToken(key, token, newToken) == [apiKey |-> key, oauthToken |-> newToken]

clearAuthKeepingToken(key, token) == [apiKey |-> Unset, oauthToken |-> token]

clearAuth(key, token) == [apiKey |-> Unset, oauthToken |-> Unset]

\* HttpClient.getHeaders
getHeaders(e, key, token) ==
    LET base == {<<"Accept", "application/json">>,
                 <<"Content-Type", "application/json">>}
        withAuth == ObjectAssign(base, getAuthHeaders(key, token))
        withKey == IF Truthy(config(e).apiKey) /\ ~HeaderTruthy(withAuth, "api_key")
                   THEN SetHeader(withAuth, "api_key", config(e).apiKey.v)
                   ELSE withAuth
    IN  IF Truthy(config(e).oauthToken) /\ ~HeaderTruthy(withKey, "Authorization")
        THEN SetHeader(withKey, "Authorization", Bearer(config(e).oauthToken.v))
        ELSE withKey

\* A boolean argument: given, or left to the default parameter value.
Flag(b) == [given |-> TRUE, v |-> b]
NoFlag == [given |-> FALSE, v |-> FALSE]

\* The default parameter value `expectSuccess = true`.
expectSuccessOrDefault(flag) == IF flag.given THEN flag.v ELSE TRUE

\* APIResponse.ok(): the status is in the range 200..299.
ok(response) == response.status >= 200 /\ response.status <= 299

\* A body that response.json() parses to `value`, and one it cannot parse.
JsonBody(value) == [parses |-> TRUE, value |-> value]
NoJsonBody == [parses |-> FALSE, value |-> JNull]

\* The Error of handleResponse; the record stands for its message.
RequestFailed(status, statusText, url, json) ==
    Throw("Error", [kind |-> "RequestFailed", status |-> status,
                    statusText |-> statusText, url |-> url, json |-> json])

handleResponseThrowingOnStatus(response, expectSuccess) ==
    LET json == IF response.body.parses THEN response.body.value ELSE JNull
    IN  IF ~ok(response)
        THEN RequestFailed(response.status, response.statusText, response.url, json)
        ELSE Return([status |-> response.status, json |-> json,
                     ok |-> ok(response), statusText |-> response.statusText])

\* HttpClient.handleResponse
handleResponse(response, expectSuccess) ==
    LET json == IF response.body.parses THEN response.body.value ELSE JNull
    IN  IF expectSuccessOrDefault(expectSuccess) /\ ~ok(response)
        THEN RequestFailed(response.status, response.statusText, response.url, json)
        ELSE Return([status |-> response.status, json |-> json,
                     ok |-> ok(response), statusText |-> response.statusText])

\* What the server answers: a status with its text, and a body.
Answer(status, statusText, body) ==
    [status |-> status, statusText |-> statusText, body |-> body]

\* this.request.<method>(`${this.baseURL}${endpoint}`, {headers}) followed by
\* handleResponse: the request sent, the response received and the result.
send(method, endpoint, e, key, token, answer, expectSuccess) ==
    LET url == config(e).baseURL \o endpoint
        response == [status |-> answer.status, statusText |-> answer.statusText,
                     body |-> answer.body, url |-> url]
    IN  [sent |-> TRUE, method |-> method, url |-> url,
         headers |-> getHeaders(e, key, token),
         response |-> response,
         result |-> handleResponse(response, Flag(expectSuccessOrDefault(expectSuccess)))]

\* HttpClient.get, post, put and delete
httpGet(endpoint, expectSuccess, e, key, token, answer) ==
    send("GET", endpoint, e, key, token, answer, expectSuccess)
httpPost(endpoint, expectSuccess, e, key, token, answer) ==
    send("POST", endpoint, e, key, token, answer, expectSuccess)
httpPut(endpoint, expectSuccess, e, key, token, answer) ==
    send("PUT", endpoint, e, key, token, answer, expectSuccess)
httpDelete(endpoint, expectSuccess, e, key, token, answer) ==
    send("DELETE", endpoint, e, key, token, answer, expectSuccess)

\* No request made.
NoExchange ==
    [sent |-> FALSE, method |-> "", url |-> "", headers |-> {},
     response |-> [status |-> 0, statusText |-> "", body |-> NoJsonBody, url |-> ""],
     result |-> NotRun]

\* fs.readFileSync(filePath) on a file that cannot be read.
ReadFileError ==
    [sent |-> FALSE, method |-> "", url |-> "", headers |-> {},
     response |-> [status |-> 0, statusText |-> "", body |-> NoJsonBody, url |-> ""],
     result |-> Throw("Error", "ENOENT: no such file or directory")]

\* PetstoreClient
createPet(e, key, token, answer) == httpPost("/pet", NoFlag, e, key, token, answer)
getPetById(id, expectSuccess, e, key, token, answer) ==
    httpGet("/pet/" \o id, Flag(expectSuccessOrDefault(expectSuccess)), e, key, token, answer)
updatePet(e, key, token, answer) == httpPut("/pet", NoFlag, e, key, token, answer)
deletePet(id, expectSuccess, e, key, token, answer) ==
    httpDelete("/pet/" \o id, Flag(expectSuccessOrDefault(expectSuccess)), e, key, token, answer)
findPetsByStatus(e, key, token, answer) ==
    httpGet("/pet/findByStatus", NoFlag, e, key, token, answer)
uploadImage(petId, readable, e, key, token, answer) ==
    IF readable
    THEN httpPost("/pet/" \o petId \o "/uploadImage", NoFlag, e, key, token, answer)
    ELSE ReadFileError

\* The environments a process starts in.
Environment(apiKeyVar, petstoreApiKeyVar, tokenVar) ==
    [API_KEY |-> apiKeyVar, PETSTORE_API_KEY |-> petstoreApiKeyVar,
     PETSTORE_OAUTH_TOKEN |-> tokenVar]

Environments ==
    {Environment(Unset, Unset, Unset),
     Environment(Str("env-key"), Unset, Unset),
     Environment(Unset, Str("petstore-key"), Str("")),
     Environment(Str("env-key"), Str("petstore-key"), Str("env-token")),
     Environment(Str(""), Unset, Str("env-token"))}

KeyArgs == {Unset, Str(""), Str("key-1"), Str("key-2")}
TokenArgs == {Unset, Str(""), Str("token-1")}
FlagArgs == {NoFlag, Flag(TRUE), Flag(FALSE)}

Answers ==
    {Answer(a[1], a[2], b) :
        a \in {<<200, "OK">>, <<299, "">>, <<300, "Multiple Choices">>,
               <<404, "Not Found">>},
        b \in {JsonBody(JObj({<<"id", JNum(50)>>})), NoJsonBody}}

\* The validators and the traced validation at rest, and the client at rest.
ClientIdle ==
    /\ env = Environment(Unset, Unset, Unset)
    /\ apiKey = Unset
    /\ oauthToken = Unset
    /\ log = <<>>
    /\ exchange = [op |-> "none", flag |-> NoFlag, made |-> NoExchange]

WalkIdle ==
    /\ stack = <<>>
    /\ walk = [status |-> "idle", deepest |-> 0]

(***************************************************************************)
(* The state machine.                                                      *)
(***************************************************************************)
\* new ContractValidator(spec), and the call about to be made.
Init ==
    /\ spec \in SpecDocs
    /\ call \in Calls
    /\ outcome = NotRun
    /\ history = <<>>
    /\ heap = <<>>
    /\ ClientIdle
    /\ WalkIdle

Run(op, result) ==
    /\ call.op = op
    /\ outcome = NotRun
    /\ outcome' = result
    /\ UNCHANGED <<spec, call, history, heap, clientVars, walkVars>>

ValidateEndpointExists ==
    Run("validateEndpointExists", validateEndpointExists(spec, call.path, call.method))

ValidateSchemaExists ==
    Run("validateSchemaExists", validateSchemaExists(spec, call.schemaName))

GetSchema ==
    Run("getSchema", getSchema(spec, call.schemaName))

ValidateResponseAgainstSchema ==
    Run("validateResponseAgainstSchema",
           validateResponseAgainstSchema(spec, call.response, call.schemaName,
                                         call.options))

SchemaValidateSchema ==
    Run("validateSchema", validateSchema(call.schema, call.data))

SchemaValidate ==
    Run("validate", validate(call.schema, call.data))

ValidatorsValidate ==
    Run("validatorsValidate", validatorsValidate(call.data, call.schema))

AssertValid ==
    Run("assertValid", assertValid(call.schema, call.data, call.context))

GetEndpointPaths == Run("getEndpointPaths", getEndpointPaths(spec))

GetSchemaNames == Run("getSchemaNames", getSchemaNames(spec))

FormatValidationErrors ==
    Run("formatValidationErrors", Return(formatValidationErrors(call.result)))

Next ==
    \/ ValidateEndpointExists
    \/ ValidateSchemaExists
    \/ GetSchema
    \/ ValidateResponseAgainstSchema
    \/ GetEndpointPaths
    \/ GetSchemaNames
    \/ FormatValidationErrors
    \/ SchemaValidateSchema
    \/ SchemaValidate
    \/ ValidatorsValidate
    \/ AssertValid

Spec == Init /\ [][Next]_vars

(***************************************************************************)
(* A session: several calls on one validator.  The errors and warnings of  *)
(* a ValidationResult are arrays, which the caller holds by reference;     *)
(* heap maps each reference to the contents of its array.                  *)
(***************************************************************************)
\* The calls of a session.
SessionEndpointCalls ==
    {[op |-> "validateEndpointExists", path |-> "/pet", method |-> Given(M_POST)],
     [op |-> "validateEndpointExists", path |-> "/missing", method |-> NotGiven]}

SessionSchemaExistsCalls ==
    {[op |-> "validateSchemaExists", schemaName |-> n] : n \in {"Pet", "Ghost"}}

SessionResponseCalls ==
    {[op |-> "validateResponseAgainstSchema",
      response |-> JObj({<<"name", JStr("available")>>,
                         <<"tags", JArr(<<JObj({<<"id", JNum(50)>>})>>)>>}),
      schemaName |-> "Pet", options |-> Omitted],
     [op |-> "validateResponseAgainstSchema", response |-> JObj({}),
      schemaName |-> "Pet", options |-> [strictRequired |-> JBool(FALSE)]]}

\* `const errors: string[] = []` and the pushes that follow: a new array,
\* which holds `contents` when the operation returns.
allocateShared(h, contents) ==
    IF Len(h) = 0
    THEN [heap |-> <<contents>>, ref |-> 1]
    ELSE [heap |-> [h EXCEPT ![1] = @ \o contents], ref |-> 1]

allocate(h, contents) == [heap |-> Append(h, contents), ref |-> Len(h) + 1]

\* No call made yet.
NoCall == [op |-> "none"]

SessionInit ==
    /\ spec \in SpecDocs
    /\ call = NoCall
    /\ outcome = NotRun
    /\ history = <<>>
    /\ heap = <<>>
    /\ ClientIdle
    /\ WalkIdle

\* The operations that return a ValidationResult.
ResultOps ==
    {"validateEndpointExists", "validateSchemaExists", "validateResponseAgainstSchema"}

InvokeClearingDefinitions(c, result) ==
    /\ Len(history) < MaxCalls
    /\ call' = c
    /\ outcome' = result
    /\ history' = Append(history, [call |-> c, outcome |-> result,
                                   errorsRef |-> 0, warningsRef |-> 0])
    /\ spec' = [spec EXCEPT !.hasDefinitions = FALSE, !.definitions = <<>>]
    /\ UNCHANGED <<heap, clientVars, walkVars>>

\* One call of a session: the operation runs on the document the validator
\* holds, which it only reads; a returned ValidationResult has its errors
\* and warnings in arrays of its own, and the caller gets the result whose
\* errors and warnings are those arrays.
Invoke(c, result) ==
    /\ Len(history) < MaxCalls
    /\ LET isResult == c.op \in ResultOps /\ result.kind = "return"
           errors == allocate(heap, result.value.errors)
           warnings == allocate(errors.heap, result.value.warnings)
           got == IF isResult
                  THEN Return(ValidationResult(result.value.valid,
                                               warnings.heap[errors.ref],
                                               warnings.heap[warnings.ref]))
                  ELSE result
       IN  /\ call' = c
           /\ outcome' = got
           /\ heap' = IF isResult THEN warnings.heap ELSE heap
           /\ history' = Append(history,
                            [call |-> c, outcome |-> got,
                             errorsRef |-> IF isResult THEN errors.ref ELSE 0,
                             warningsRef |-> IF isResult THEN warnings.ref ELSE 0])
    /\ UNCHANGED <<spec, clientVars, walkVars>>

SessionValidateEndpointExists ==
    \E c \in SessionEndpointCalls :
        Invoke(c, validateEndpointExists(spec, c.path, c.method))

SessionValidateSchemaExists ==
    \E c \in SessionSchemaExistsCalls :
        Invoke(c, validateSchemaExists(spec, c.schemaName))

SessionValidateResponseAgainstSchema ==
    \E c \in SessionResponseCalls :
        Invoke(c, validateResponseAgainstSchema(spec, c.response, c.schemaName, c.options))

SessionGetEndpointPaths ==
    Invoke([op |-> "getEndpointPaths"], getEndpointPaths(spec))

SessionGetSchemaNames ==
    Invoke([op |-> "getSchemaNames"], getSchemaNames(spec))

\* What the caller leaves in an errors array it has changed.
ChangedByCaller == <<[kind |-> "ChangedByCaller"]>>

\* The caller changes the errors array of a result it holds.
CallerChangesResult ==
    \E i \in DOMAIN history :
        /\ history[i].errorsRef # 0
        /\ heap[history[i].errorsRef] # ChangedByCaller
        /\ heap' = [heap EXCEPT ![history[i].errorsRef] = ChangedByCaller]
        /\ UNCHANGED <<spec, call, outcome, history, clientVars, walkVars>>

SessionNext ==
    \/ SessionValidateEndpointExists
    \/ SessionValidateSchemaExists
    \/ SessionValidateResponseAgainstSchema
    \/ SessionGetEndpointPaths
    \/ SessionGetSchemaNames
    \/ CallerChangesResult

SessionSpec == SessionInit /\ [][SessionNext]_vars

(***************************************************************************)
(* A client: a process starts in some environment, writes the credentials  *)
(* and makes requests.  exchange holds the entry point called, its         *)
(* expectSuccess argument and the request made; a write to the credentials *)
(* forgets it, so the exchange of a state was made with the credentials of *)
(* that state.  A request changes nothing the client holds, so one request *)
(* is traced between two writes.                                           *)
(***************************************************************************)
ClientInit ==
    /\ spec = PetstoreDoc
    /\ call = NoCall
    /\ outcome = NotRun
    /\ history = <<>>
    /\ heap = <<>>
    /\ WalkIdle
    /\ env \in Environments
    /\ apiKey = initialApiKey(env)
    /\ oauthToken = initialOAuthToken(env)
    /\ log = <<>>
    /\ exchange = [op |-> "none", flag |-> NoFlag, made |-> NoExchange]

\* A write to the credentials.
Write(op, value, after) ==
    /\ Len(log) < MaxWrites
    /\ apiKey' = after.apiKey
    /\ oauthToken' = after.oauthToken
    /\ log' = Append(log, [op |-> op, v |-> value])
    /\ exchange' = [op |-> "none", flag |-> NoFlag, made |-> NoExchange]
    /\ UNCHANGED <<env, validatorVars, walkVars>>

SetApiKey == \E k \in KeyArgs : Write("setApiKey", k, setApiKey(apiKey, oauthToken, k))

SetOAuthToken ==
    \E t \in TokenArgs : Write("setOAuthToken", t, setOAuthToken(apiKey, oauthToken, t))

ClearAuth == Write("clearAuth", Unset, clearAuth(apiKey, oauthToken))

\* A call of an entry point of the client.
Request(op, flag, made) ==
    /\ exchange.op = "none"
    /\ exchange' = [op |-> op, flag |-> flag, made |-> made]
    /\ UNCHANGED <<env, apiKey, oauthToken, log, validatorVars, walkVars>>

HttpGet ==
    \E f \in FlagArgs, a \in Answers :
        Request("get", f, httpGet("/pet/1", f, env, apiKey, oauthToken, a))

HttpPost ==
    \E f \in FlagArgs, a \in Answers :
        Request("post", f, httpPost("/pet", f, env, apiKey, oauthToken, a))

HttpPut ==
    \E f \in FlagArgs, a \in Answers :
        Request("put", f, httpPut("/pet", f, env, apiKey, oauthToken, a))

HttpDelete ==
    \E f \in FlagArgs, a \in Answers :
        Request("delete", f, httpDelete("/pet/1", f, env, apiKey, oauthToken, a))

CreatePet ==
    \E a \in Answers : Request("createPet", NoFlag, createPet(env, apiKey, oauthToken, a))

GetPetById ==
    \E f \in FlagArgs, a \in Answers :
        Request("getPetById", f, getPetById("1", f, env, apiKey, oauthToken, a))

UpdatePet ==
    \E a \in Answers : Request("updatePet", NoFlag, updatePet(env, apiKey, oauthToken, a))

DeletePet ==
    \E f \in FlagArgs, a \in Answers :
        Request("deletePet", f, deletePet("1", f, env, apiKey, oauthToken, a))

FindPetsByStatus ==
    \E a \in Answers :
        Request("findPetsByStatus", NoFlag, findPetsByStatus(env, apiKey, oauthToken, a))

UploadImage ==
    \E readable \in BOOLEAN, a \in Answers :
        Request("uploadImage", NoFlag,
                uploadImage("1", readable, env, apiKey, oauthToken, a))

ClientNext ==
    \/ SetApiKey
    \/ SetOAuthToken
    \/ ClearAuth
    \/ HttpGet
    \/ HttpPost
    \/ HttpPut
    \/ HttpDelete
    \/ CreatePet
    \/ GetPetById
    \/ UpdatePet
    \/ DeletePet
    \/ FindPetsByStatus
    \/ UploadImage

ClientSpec == ClientInit /\ [][ClientNext]_vars

(***************************************************************************)
(* A traced validation: one call of validateResponseAgainstSchema, step by *)
(* step.  stack holds its activations; a nested call pushes one, a return  *)
(* pops one, and a throw, which nothing catches, unwinds them all.  The    *)
(* function is synchronous: once called it runs until it returns or        *)
(* throws, which is the fairness of WalkSpec.                              *)
(***************************************************************************)
\* A category nested n deep, alone and as the one element of tags.
RECURSIVE Chain(_)
Chain(n) ==
    IF n = 0 THEN JObj({<<"id", JNum(50)>>})
    ELSE JObj({<<"id", JNum(50)>>, <<"category", Chain(n - 1)>>,
               <<"tags", JArr(<<Chain(n - 1)>>)>>})

WalkCalls ==
    {[op |-> "validateResponseAgainstSchema", response |-> r, schemaName |-> n,
      options |-> Omitted] :
        r \in Responses \cup {Chain(n) : n \in 1..MaxDepth}, n \in SchemaNames}

WalkInit ==
    /\ spec \in SpecDocs \cup {CyclicDoc}
    /\ call \in WalkCalls
    /\ outcome = NotRun
    /\ history = <<>>
    /\ heap = <<>>
    /\ ClientIdle
    /\ WalkIdle

\* The caller calls validateResponseAgainstSchema.
WalkCall ==
    /\ walk.status = "idle"
    /\ stack' = <<Activation(spec, call.response, call.schemaName)>>
    /\ walk' = [status |-> "running", deepest |-> 1]
    /\ UNCHANGED <<validatorVars, clientVars>>

\* The activation on top throws, and the exception leaves every activation.
WalkThrow ==
    /\ walk.status = "running"
    /\ entryThrows(spec, stack[Len(stack)].response, stack[Len(stack)].schemaName)
    /\ stack' = <<>>
    /\ walk' = [walk EXCEPT !.status = "threw"]
    /\ UNCHANGED <<validatorVars, clientVars>>

\* The activation on top makes its next nested call.
WalkNestedCall ==
    /\ walk.status = "running"
    /\ Len(stack) < MaxStack
    /\ LET top == stack[Len(stack)]
       IN  /\ ~entryThrows(spec, top.response, top.schemaName)
           /\ top.pending # <<>>
           /\ stack' = Append([stack EXCEPT ![Len(stack)].pending = Tail(top.pending)],
                              Activation(spec, top.pending[1].response,
                                         top.pending[1].schemaName))
           /\ walk' = [walk EXCEPT !.deepest =
                          IF Len(stack) + 1 > @ THEN Len(stack) + 1 ELSE @]
    /\ UNCHANGED <<validatorVars, clientVars>>

\* The activation on top returns its result.
WalkReturn ==
    /\ walk.status = "running"
    /\ LET top == stack[Len(stack)]
       IN  /\ ~entryThrows(spec, top.response, top.schemaName)
           /\ top.pending = <<>>
           /\ stack' = SubSeq(stack, 1, Len(stack) - 1)
           /\ walk' = [walk EXCEPT !.status =
                          IF Len(stack) = 1 THEN "returned" ELSE "running"]
    /\ UNCHANGED <<validatorVars, clientVars>>

WalkNext ==
    \/ WalkCall
    \/ WalkThrow
    \/ WalkNestedCall
    \/ WalkReturn

WalkSpec == WalkInit /\ [][WalkNext]_vars /\ WF_vars(WalkNext)

(***************************************************************************)
(* Properties.                                                             *)
(***************************************************************************)
Ran(op) == call.op = op /\ outcome.kind # "pending"
Returned(op) == call.op = op /\ outcome.kind = "return"

\* The definition a validateResponseAgainstSchema call names, when the
\* document has it.
CalledSchemaExists ==
    spec.hasDefinitions /\ \E i \in DOMAIN spec.definitions :
                              spec.definitions[i].name = call.schemaName
CalledSchema ==
    (spec.definitions[CHOOSE i \in DOMAIN spec.definitions :
                         spec.definitions[i].name = call.schemaName]).schema

\* The declared properties of the called schema that the response has.
PresentProperties ==
    {i \in DOMAIN CalledSchema.properties :
        \E p \in call.response.v : p[1] = CalledSchema.properties[i].name}

\* C1: every result returned by validateEndpointExists, validateSchemaExists,
\* validateResponseAgainstSchema and SchemaValidator.validate, and every
\* result validateFieldType hands back for a property (its own or one
\* propagated from a nested $ref validation), has valid true exactly when
\* errors is empty.
C1_ValidIffNoErrors ==
    /\ \A op \in {"validateEndpointExists", "validateSchemaExists",
                  "validateResponseAgainstSchema", "validate", "validatorsValidate"} :
          Returned(op) => (outcome.value.valid <=> Len(outcome.value.errors) = 0)
    /\ (Returned("validateResponseAgainstSchema") /\ CalledSchemaExists
        /\ call.response.t = "object")
       => \A i \in PresentProperties :
            LET p == CalledSchema.properties[i]
                r == validateFieldType(spec, p.name, Get(call.response, p.name), p.schema)
            IN  r.kind = "return" /\ (r.value.valid <=> Len(r.value.errors) = 0)

\* A pet with a name whose category, validated through $ref, lacks its
\* required name: the nested result is propagated and the call is invalid.
C1_Witness ==
    /\ Returned("validateResponseAgainstSchema")
    /\ spec = PetstoreDoc
    /\ call.schemaName = "Pet"
    /\ call.response = JObj({<<"name", JStr("available")>>,
                             <<"category", JObj({<<"id", JNum(50)>>})>>})
    /\ ~outcome.value.valid
    /\ Len(outcome.value.errors) = 2

\* C2: validateEndpointExists, validateSchemaExists and
\* validateResponseAgainstSchema never raise: every call returns a result.
C2_NeverRaises ==
    \A op \in {"validateEndpointExists", "validateSchemaExists",
               "validateResponseAgainstSchema"} :
        Ran(op) => outcome.kind = "return"

\* C3: validate(S, V).valid is true exactly when validateSchema(S, V) does
\* not raise.
C3_ValidateAgreesWithValidateSchema ==
    /\ Ran("validate") =>
         ((outcome.kind = "return" /\ outcome.value.valid)
          <=> validateSchema(call.schema, call.data).kind = "return")
    /\ Ran("validateSchema") =>
         (outcome.kind = "return"
          <=> (validate(call.schema, call.data).kind = "return"
               /\ validate(call.schema, call.data).value.valid))

\* validate reports the two failures of a pet without id whose name is a number.
C3_Witness ==
    /\ Returned("validate")
    /\ call.schema = petSchema
    /\ call.data = JObj({<<"name", JNum(50)>>})
    /\ ~outcome.value.valid
    /\ outcome.value.errors = <<"root: must have required property 'id'",
                                "/name: must be string">>

AbsentRequired ==
    SelectSeq(CalledSchema.required,
              LAMBDA f : ~(call.response.t = "object"
                           /\ \E p \in call.response.v : p[1] = f))

RequiredMessages ==
    [i \in DOMAIN AbsentRequired |-> [kind |-> "RequiredMissing", field |-> AbsentRequired[i]]]

\* How many entries of the sequence s equal m.
Count(s, m) == Cardinality({i \in DOMAIN s : s[i] = m})

StrictCall == call.options = Omitted \/ call.options.strictRequired = JBool(TRUE)

\* C5 as stated: a required name absent from the value has exactly one
\* required-field message, in errors when strictRequired is true or omitted
\* and in warnings (not in errors) when it is false; a required name present
\* in the value has no such message.
C5_OneMessagePerAbsentRequired ==
    (Returned("validateResponseAgainstSchema") /\ CalledSchemaExists) =>
        \A i \in DOMAIN CalledSchema.required :
            LET f == CalledSchema.required[i]
                m == [kind |-> "RequiredMissing", field |-> f]
                absent == \E j \in DOMAIN AbsentRequired : AbsentRequired[j] = f
                inErrors == Count(outcome.value.errors, m)
                inWarnings == Count(outcome.value.warnings, m)
            IN  /\ (absent /\ StrictCall) => (inErrors = 1 /\ inWarnings = 0)
                /\ (absent /\ ~StrictCall) => (inErrors = 0 /\ inWarnings = 1)
                /\ ~absent => (inErrors = 0 /\ inWarnings = 0)

\* C5, amended: the required-field pass emits one message per required name
\* absent from the value, in the order of schema.required, and none for a
\* name that is present.  With strictRequired true or omitted these messages
\* are the leading entries of errors and warnings is empty; with
\* strictRequired false they are the whole of warnings.  (errors may hold the
\* same message again, propagated from a property validated through $ref.)
C5_RequiredPassMessages ==
    (Returned("validateResponseAgainstSchema") /\ CalledSchemaExists) =>
        /\ StrictCall =>
             /\ Len(outcome.value.errors) >= Len(RequiredMessages)
             /\ SubSeq(outcome.value.errors, 1, Len(RequiredMessages)) = RequiredMessages
             /\ outcome.value.warnings = <<>>
        /\ ~StrictCall => outcome.value.warnings = RequiredMessages

\* An empty object against Pet, not strict: both required names are reported,
\* in order, as warnings.
C5_Witness ==
    /\ Returned("validateResponseAgainstSchema")
    /\ spec = PetstoreDoc
    /\ call.schemaName = "Pet"
    /\ call.response = JObj({})
    /\ ~StrictCall
    /\ outcome.value.warnings = <<[kind |-> "RequiredMissing", field |-> "name"],
                                  [kind |-> "RequiredMissing", field |-> "photoUrls"]>>

\* The response lacks a required name of the called schema, and each declared
\* property it has passes its field check.
OnlyRequiredViolations ==
    /\ CalledSchemaExists
    /\ call.response.t = "object"
    /\ Len(AbsentRequired) > 0
    /\ \A i \in PresentProperties :
          LET p == CalledSchema.properties[i]
              r == validateFieldType(spec, p.name, Get(call.response, p.name), p.schema)
          IN  r.kind = "return" /\ Len(r.value.errors) = 0

\* The calls a result is compared with: the same schema name and every
\* options argument, on responses with and without the required names.
ComparedResponses ==
    {JObj({}), JObj({<<"name", JStr("available")>>}),
     JObj({<<"name", JStr("available")>>, <<"photoUrls", JArr(<<>>)>>}),
     JObj({<<"id", JNum(50)>>}),
     JObj({<<"name", JNum(50)>>, <<"id", JNum(50)>>})}

\* C6: warnings never affect validity.  A call with strictRequired false on
\* a value whose only violations are missing top-level required fields
\* returns valid with no errors and some warnings; and two results with
\* equal errors have the same valid flag.
C6_WarningsDoNotAffectValid ==
    Ran("validateResponseAgainstSchema") =>
        /\ (~StrictCall /\ OnlyRequiredViolations) =>
             /\ outcome.kind = "return"
             /\ outcome.value.valid
             /\ outcome.value.errors = <<>>
             /\ outcome.value.warnings # <<>>
        /\ outcome.kind = "return" =>
             \A r \in ComparedResponses, o \in OptionsArgs :
                LET other == validateResponseAgainstSchema(spec, r, call.schemaName, o)
                IN  (other.kind = "return"
                     /\ other.value.errors = outcome.value.errors)
                    => other.value.valid = outcome.value.valid

\* A pet with a name and no photoUrls, not strict: valid, with a warning.
C6_Witness ==
    /\ Returned("validateResponseAgainstSchema")
    /\ spec = PetstoreDoc
    /\ call.schemaName = "Pet"
    /\ call.response = JObj({<<"name", JStr("available")>>, <<"id", JNum(50)>>})
    /\ ~StrictCall
    /\ outcome.value.valid
    /\ Len(outcome.value.warnings) = 1

RECURSIVE IsRequiredMessage(_)
\* A required-field message, bare or prefixed with "<name>[<index>]: ".
IsRequiredMessage(m) ==
    \/ m.kind = "RequiredMissing"
    \/ m.kind = "ItemError" /\ IsRequiredMessage(m.err)

\* C7: with strictRequired false a required-field violation is a warning at
\* every nesting depth: errors holds no required-field message, bare or
\* prefixed, also for objects reached through a property $ref or through
\* array items.$ref.
C7_NoRequiredErrorsWhenNotStrict ==
    (Returned("validateResponseAgainstSchema") /\ ~StrictCall) =>
        \A i \in DOMAIN outcome.value.errors :
            ~IsRequiredMessage(outcome.value.errors[i])

\* C8: validateEndpointExists is valid exactly when the path is a key of
\* paths and the lower-cased method (default 'get') a key of paths[path];
\* when invalid it holds one error, the endpoint error if the path is
\* absent and the method error otherwise; warnings is empty.
C8_EndpointExists ==
    Ran("validateEndpointExists") =>
        LET method == IF call.method.given THEN call.method.v ELSE <<"g", "e", "t">>
            pathThere == call.path \in DOMAIN spec.paths
            methodThere == pathThere /\ toLowerCase(method) \in spec.paths[call.path]
        IN  /\ outcome.kind = "return"
            /\ outcome.value.valid <=> methodThere
            /\ outcome.value.warnings = <<>>
            /\ methodThere => outcome.value.errors = <<>>
            /\ ~methodThere =>
                 /\ Len(outcome.value.errors) = 1
                 /\ outcome.value.errors[1].kind =
                      (IF pathThere THEN "MethodNotFound" ELSE "EndpointNotFound")
                 /\ outcome.value.errors[1].path = call.path

\* The method is omitted and the path has no get: one method error.
C8_Witness ==
    /\ Returned("validateEndpointExists")
    /\ spec = PetstoreDoc
    /\ call.path = "/pet"
    /\ ~call.method.given
    /\ outcome.value = [valid |-> FALSE,
                        errors |-> <<[kind |-> "MethodNotFound", path |-> "/pet",
                                      method |-> <<"G", "E", "T">>]>>,
                        warnings |-> <<>>]

\* Two strings are the same up to the case of their letters.
SameUpToCase(a, b) ==
    /\ Len(a) = Len(b)
    /\ \A i \in DOMAIN a :
          \/ a[i] = b[i]
          \/ \E k \in DOMAIN LowerLetters :
                {a[i], b[i]} = {LowerLetters[k], UpperLetters[k]}

IsUpperCase(a) == \A i \in DOMAIN a : \A k \in DOMAIN LowerLetters : a[i] # LowerLetters[k]

\* C9: method matching is case-insensitive.  Two method strings that differ
\* only in letter case get the same valid flag for the same path, and the
\* method error names the method in upper case, with the path.
C9_MethodCaseInsensitive ==
    (Returned("validateEndpointExists") /\ call.method.given) =>
        /\ \A m \in Methods :
              SameUpToCase(m, call.method.v) =>
                 validateEndpointExists(spec, call.path, Given(m)).value.valid
                    = outcome.value.valid
        /\ \A i \in DOMAIN outcome.value.errors :
              outcome.value.errors[i].kind = "MethodNotFound" =>
                 /\ IsUpperCase(outcome.value.errors[i].method)
                 /\ SameUpToCase(outcome.value.errors[i].method, call.method.v)
                 /\ outcome.value.errors[i].path = call.path

\* 'POST' is found under the key 'post'.
C9_Witness ==
    /\ Returned("validateEndpointExists")
    /\ spec = PetstoreDoc
    /\ call.path = "/pet"
    /\ call.method = Given(<<"P", "O", "S", "T">>)
    /\ outcome.value.valid

\* C10: validateSchemaExists never raises; it is invalid, with one error
\* naming the schema and no warnings, exactly when definitions is absent or
\* has no entry for the name, and valid with no errors otherwise.
C10_SchemaExists ==
    Ran("validateSchemaExists") =>
        LET there == /\ spec.hasDefinitions
                     /\ \E i \in DOMAIN spec.definitions :
                           spec.definitions[i].name = call.schemaName
        IN  /\ outcome.kind = "return"
            /\ outcome.value.valid <=> there
            /\ outcome.value.warnings = <<>>
            /\ there => outcome.value.errors = <<>>
            /\ ~there => outcome.value.errors =
                           <<[kind |-> "SchemaNotInDefinitions",
                              schema |-> call.schemaName]>>

\* The document has no definitions section: invalid, without a throw.
C10_Witness ==
    /\ Returned("validateSchemaExists")
    /\ spec = NoDefinitionsDoc
    /\ call.schemaName = "Pet"
    /\ ~outcome.value.valid
    /\ Len(outcome.value.errors) = 1

(***************************************************************************)
(* The field checks of a validateResponseAgainstSchema call.               *)
(***************************************************************************)
\* The call is on an object value and names a definition the document has.
ObjectCall ==
    /\ Returned("validateResponseAgainstSchema")
    /\ CalledSchemaExists
    /\ call.response.t = "object"

\* The value the response has for its declared property i.
FieldValue(i) == Get(call.response, CalledSchema.properties[i].name)

\* The field check of the declared property i, and the errors it adds to
\* the result.
FieldRun(i) ==
    validateFieldType(spec, CalledSchema.properties[i].name, FieldValue(i),
                      CalledSchema.properties[i].schema)
FieldErrors(i) == FieldRun(i).value.errors

\* The property i is validated through its $ref: the value is an object or
\* an array.
ResolvedThroughRef(i) ==
    /\ Len(CalledSchema.properties[i].schema.ref) # 0
    /\ FieldValue(i).t \in {"object", "array"}

\* The present properties that declare a type and are checked against it.
TypedProperties ==
    {i \in PresentProperties :
        CalledSchema.properties[i].schema.type # "" /\ ~ResolvedThroughRef(i)}

\* The runtime JSON type of a value: one of null, array, integer, number,
\* string, boolean, object.
RuntimeType(value) ==
    CASE value.t = "number" -> (IF value.v % 10 = 0 THEN "integer" ELSE "number")
      [] OTHER -> value.t

\* The entries of the sequence s of the given kind.
OfKind(s, kind) == {k \in DOMAIN s : s[k].kind = kind}

\* The sequence s has the entry m.
Has(s, m) == \E k \in DOMAIN s : s[k] = m

\* C11: getSchema(name) throws the error 'No definitions found in OpenAPI
\* spec' exactly when the document has no definitions section; otherwise it
\* returns definitions[name], the undefined value when name is not a key.
C11_GetSchema ==
    Ran("getSchema") =>
        /\ ~spec.hasDefinitions <=> outcome.kind = "throw"
        /\ outcome.kind = "throw" =>
             /\ outcome.name = "Error"
             /\ outcome.message = "No definitions found in OpenAPI spec"
        /\ spec.hasDefinitions =>
             /\ outcome.kind = "return"
             /\ \A i \in DOMAIN spec.definitions :
                   spec.definitions[i].name = call.schemaName =>
                      outcome.value = spec.definitions[i].schema
             /\ (\A i \in DOMAIN spec.definitions :
                    spec.definitions[i].name # call.schemaName)
                => outcome.value = [undefined |-> TRUE]

\* A name that is not a key of the definitions: the undefined value, no throw.
C11_Witness ==
    /\ Returned("getSchema")
    /\ spec = PetstoreDoc
    /\ call.schemaName = "Ghost"
    /\ outcome.value = [undefined |-> TRUE]

\* C12: a present property that declares type T and is not validated
\* through $ref contributes exactly one type error, naming the field, the
\* runtime type of the value, T and the value, when the runtime type differs
\* from T, and no type error when it equals T.
C12_OneTypeErrorIffTypeDiffers ==
    ObjectCall =>
        \A i \in TypedProperties :
            LET p == CalledSchema.properties[i]
                actual == RuntimeType(FieldValue(i))
                m == [kind |-> "TypeMismatch", field |-> p.name, actual |-> actual,
                      expected |-> p.schema.type, value |-> FieldValue(i)]
            IN  /\ FieldRun(i).kind = "return"
                /\ actual # p.schema.type =>
                     /\ OfKind(FieldErrors(i), "TypeMismatch") = {1}
                     /\ FieldErrors(i)[1] = m
                     /\ Has(outcome.value.errors, m)
                /\ actual = p.schema.type =>
                     OfKind(FieldErrors(i), "TypeMismatch") = {}

\* {id: "available"} against Pet, whose id is an integer: one type error.
C12_Witness ==
    /\ ObjectCall
    /\ spec = PetstoreDoc
    /\ call.schemaName = "Pet"
    /\ call.response = JObj({<<"id", JStr("available")>>})
    /\ Count(outcome.value.errors,
             [kind |-> "TypeMismatch", field |-> "id", actual |-> "string",
              expected |-> "integer", value |-> JStr("available")]) = 1

\* C13: the runtime type distinguishes integer from number and is compared
\* with the declared type by equality.  A property declared 'number' passes
\* the type check only with a number that has a fractional part, one
\* declared 'integer' only with a number that has none, one declared 'array'
\* with every array; and a type error names null as 'null', an array as
\* 'array', a number without fractional part as 'integer' and any other
\* number as 'number'.
C13_IntegerIsNotNumber ==
    ObjectCall =>
        \A i \in TypedProperties :
            LET T == CalledSchema.properties[i].schema.type
                value == FieldValue(i)
                passes == OfKind(FieldErrors(i), "TypeMismatch") = {}
            IN  /\ T = "number" => (passes <=> (value.t = "number" /\ value.v % 10 # 0))
                /\ T = "integer" => (passes <=> (value.t = "number" /\ value.v % 10 = 0))
                /\ T = "array" => (passes <=> value.t = "array")
                /\ \A k \in OfKind(FieldErrors(i), "TypeMismatch") :
                      /\ value.t = "null" => FieldErrors(i)[k].actual = "null"
                      /\ value.t = "array" => FieldErrors(i)[k].actual = "array"
                      /\ (value.t = "number" /\ value.v % 10 = 0)
                         => FieldErrors(i)[k].actual = "integer"
                      /\ (value.t = "number" /\ value.v % 10 # 0)
                         => FieldErrors(i)[k].actual = "number"

\* The value 5 for a property declared 'number' is a type mismatch.
C13_Witness ==
    /\ ObjectCall
    /\ spec = EdgeDoc
    /\ call.schemaName = "Pet"
    /\ call.response = JObj({<<"id", JNum(50)>>})
    /\ outcome.value.errors =
          <<[kind |-> "TypeMismatch", field |-> "id", actual |-> "integer",
             expected |-> "number", value |-> JNum(50)]>>

\* C14: a present property that declares type and enum (and is not validated
\* through $ref) contributes one enum error, listing the enum in its order,
\* exactly when the value is not a member of the enum, whatever the type
\* check says; a value of the wrong type that is not a member contributes
\* the type error first and the enum error second.
C14_EnumIndependentOfType ==
    ObjectCall =>
        \A i \in TypedProperties :
            LET p == CalledSchema.properties[i]
                value == FieldValue(i)
                member == /\ value.t \notin {"object", "array"}
                          /\ \E k \in DOMAIN p.schema.enum : p.schema.enum[k] = value
                e == [kind |-> "EnumMismatch", field |-> p.name, value |-> value,
                      enum |-> p.schema.enum]
            IN  p.schema.hasEnum =>
                  /\ member => OfKind(FieldErrors(i), "EnumMismatch") = {}
                  /\ ~member =>
                       /\ Cardinality(OfKind(FieldErrors(i), "EnumMismatch")) = 1
                       /\ Count(FieldErrors(i), e) = 1
                       /\ Has(outcome.value.errors, e)
                  /\ (~member /\ RuntimeType(value) # p.schema.type) =>
                       /\ Len(FieldErrors(i)) = 2
                       /\ FieldErrors(i)[1].kind = "TypeMismatch"
                       /\ FieldErrors(i)[2] = e
                  /\ (~member /\ RuntimeType(value) = p.schema.type) =>
                       FieldErrors(i) = <<e>>

\* status: 5 against Pet, whose status is a string of an enum: the type
\* error, then the enum error.
C14_Witness ==
    /\ ObjectCall
    /\ spec = PetstoreDoc
    /\ call.schemaName = "Pet"
    /\ call.response = JObj({<<"name", JStr("available")>>, <<"status", JNum(50)>>})
    /\ Len(outcome.value.errors) = 3
    /\ outcome.value.errors[2].kind = "TypeMismatch"
    /\ outcome.value.errors[3] =
          [kind |-> "EnumMismatch", field |-> "status", value |-> JNum(50),
           enum |-> <<JStr("available"), JStr("pending"), JStr("sold")>>]

\* The last segment of a $ref.
LastSegment(ref) == ref[Len(ref)]

\* The errors of the elements of an array, from position j on, each element
\* validated against the definition `name` and each error prefixed with the
\* field name and the zero-based index of its element.
RECURSIVE PrefixedElementErrors(_, _, _, _)
PrefixedElementErrors(fieldName, elements, name, j) ==
    IF j > Len(elements) THEN <<>>
    ELSE LET own == validateResponseAgainstSchema(spec, elements[j], name,
                                                  [omitted |-> TRUE]).value.errors
         IN  [k \in DOMAIN own |->
                 [kind |-> "ItemError", field |-> fieldName, index |-> j - 1,
                  err |-> own[k]]]
             \o PrefixedElementErrors(fieldName, elements, name, j + 1)

\* The sum of the error counts of the elements' validations.
RECURSIVE ElementErrorCount(_, _, _)
ElementErrorCount(elements, name, j) ==
    IF j > Len(elements) THEN 0
    ELSE Len(validateResponseAgainstSchema(spec, elements[j], name,
                                           [omitted |-> TRUE]).value.errors)
         + ElementErrorCount(elements, name, j + 1)

\* The entries of the sequence s of the given kind, in their order.
SelectKind(s, kind) == SelectSeq(s, LAMBDA m : m.kind = kind)

\* The present properties declared type 'array' with items.
ArrayProperties ==
    {i \in TypedProperties : CalledSchema.properties[i].schema.type = "array"}

\* C15: a present property declared type 'array' with items.$ref whose value
\* is an array contributes, for each element in order, every error of the
\* validation of that element against the referenced definition, in that
\* validation's order, prefixed with "<name>[<index>]: "; the property's
\* items contribute as many errors as the elements' validations have in sum.
C15_ItemRefErrorsPrefixed ==
    ObjectCall =>
        \A i \in ArrayProperties :
            LET p == CalledSchema.properties[i]
                value == FieldValue(i)
            IN  (Len(p.schema.items.ref) # 0 /\ value.t = "array") =>
                  /\ FieldErrors(i) =
                        PrefixedElementErrors(p.name, value.v,
                                              LastSegment(p.schema.items.ref), 1)
                  /\ Len(SelectKind(FieldErrors(i), "ItemError")) =
                        ElementErrorCount(value.v, LastSegment(p.schema.items.ref), 1)
                  /\ \A k \in DOMAIN FieldErrors(i) :
                        Has(outcome.value.errors, FieldErrors(i)[k])

\* tags: [{id: 5}] against Pet, whose Tag requires name: the error of the
\* element is reported under tags[0].
C15_Witness ==
    /\ ObjectCall
    /\ spec = PetstoreDoc
    /\ call.schemaName = "Pet"
    /\ call.response = JObj({<<"name", JStr("available")>>,
                             <<"tags", JArr(<<JObj({<<"id", JNum(50)>>})>>)>>})
    /\ Has(outcome.value.errors,
           [kind |-> "ItemError", field |-> "tags", index |-> 0,
            err |-> [kind |-> "RequiredMissing", field |-> "name"]])

\* The positions of the elements whose runtime type differs from type.
MismatchingPositions(elements, type) ==
    SelectSeq([j \in 1..Len(elements) |-> j],
              LAMBDA j : RuntimeType(elements[j]) # type)

\* C16: a present property declared type 'array' with items.type and no
\* items.$ref contributes, when its value is an array, one error
\* "<name>[<index>] has type '<actual>' but schema expects '<expected>'" for
\* each element whose runtime type differs from items.type, in element
\* order, and nothing else; when its value is not an array it contributes
\* the field-level type error alone.
C16_ItemTypeErrors ==
    ObjectCall =>
        \A i \in ArrayProperties :
            LET p == CalledSchema.properties[i]
                value == FieldValue(i)
                T == p.schema.items.type
                at == MismatchingPositions(value.v, T)
            IN  (Len(p.schema.items.ref) = 0 /\ T # "") =>
                  /\ value.t = "array" =>
                       /\ FieldErrors(i) =
                             [k \in DOMAIN at |->
                                 [kind |-> "ItemTypeMismatch", field |-> p.name,
                                  index |-> at[k] - 1,
                                  actual |-> RuntimeType(value.v[at[k]]),
                                  expected |-> T]]
                       /\ \A k \in DOMAIN FieldErrors(i) :
                             Has(outcome.value.errors, FieldErrors(i)[k])
                  /\ value.t # "array" =>
                       /\ OfKind(FieldErrors(i), "ItemTypeMismatch") = {}
                       /\ FieldErrors(i) =
                             <<[kind |-> "TypeMismatch", field |-> p.name,
                                actual |-> RuntimeType(value), expected |-> "array",
                                value |-> value]>>

\* photoUrls: [5, {id: 5}] where the items are integers: the first element
\* matches, the second is reported under photoUrls[1].
C16_Witness ==
    /\ ObjectCall
    /\ spec = EdgeDoc
    /\ call.schemaName = "Pet"
    /\ call.response = JObj({<<"photoUrls", JArr(<<JNum(50), JObj({<<"id", JNum(50)>>})>>)>>})
    /\ outcome.value.errors =
          <<[kind |-> "RequiredMissing", field |-> "id"],
            [kind |-> "ItemTypeMismatch", field |-> "photoUrls", index |-> 1,
             actual |-> "object", expected |-> "integer"]>>

\* The errors, or the warnings, of the field checks of the present
\* properties from position i on, in the order of schema.properties.
RECURSIVE FieldMessages(_, _)
FieldMessages(part, i) ==
    IF i > Len(CalledSchema.properties) THEN <<>>
    ELSE (IF i \in PresentProperties THEN FieldRun(i).value[part] ELSE <<>>)
         \o FieldMessages(part, i + 1)

\* The names the called schema declares or requires.
DeclaredNames ==
    {CalledSchema.properties[i].name : i \in DOMAIN CalledSchema.properties}
    \cup {CalledSchema.required[i] : i \in DOMAIN CalledSchema.required}

\* C17: a property of the value that the schema neither declares nor
\* requires is ignored: the call ends as the call on the value without that
\* property does.  And a declared property that the value lacks adds
\* nothing: the result holds the messages of the required-field pass and of
\* the field checks of the properties the value has, and no other.
C17_UndeclaredPropertiesIgnored ==
    (Ran("validateResponseAgainstSchema") /\ CalledSchemaExists
     /\ call.response.t = "object") =>
        /\ \A pair \in call.response.v :
              pair[1] \notin DeclaredNames =>
                 outcome = validateResponseAgainstSchema(
                              spec, JObj(call.response.v \ {pair}), call.schemaName,
                              call.options)
        /\ outcome.kind = "return" =>
              /\ outcome.value.errors =
                    (IF StrictCall THEN RequiredMessages ELSE <<>>)
                    \o FieldMessages("errors", 1)
              /\ outcome.value.warnings =
                    (IF StrictCall THEN <<>> ELSE RequiredMessages)
                    \o FieldMessages("warnings", 1)

\* A tag with an undeclared property `extra`, and without its declared id,
\* which is not required: valid, nothing reported.
C17_Witness ==
    /\ Returned("validateResponseAgainstSchema")
    /\ spec = EdgeDoc
    /\ call.schemaName = "Tag"
    /\ call.response = JObj({<<"name", JStr("available")>>, <<"extra", JNum(50)>>})
    /\ outcome.value = [valid |-> TRUE, errors |-> <<>>, warnings |-> <<>>]

\* The lines of a text: its pieces between the separators.
RECURSIVE SplitLines(_, _, _)
SplitLines(text, i, line) ==
    IF i > Len(text) THEN <<line>>
    ELSE IF text[i] = "\n" THEN <<line>> \o SplitLines(text, i + 1, <<>>)
    ELSE SplitLines(text, i + 1, Append(line, text[i]))

LinesOf(text) == IF text = <<>> THEN <<>> ELSE SplitLines(text, 1, <<>>)

\* C18: formatValidationErrors returns the empty string exactly when errors
\* and warnings are both empty; otherwise its lines are the errors section (a
\* header line and one marked line per error, in order) when errors is not
\* empty, followed by the warnings section (a header line and one marked line
\* per warning, in order) when warnings is not empty, so that the text has
\* (1 + |errors| if any) + (1 + |warnings| if any) lines.
C18_FormatValidationErrors ==
    Ran("formatValidationErrors") =>
        LET E == call.result.errors
            W == call.result.warnings
            errorsSection ==
                IF E = <<>> THEN <<>>
                ELSE <<<<"Validation Errors:">>>>
                     \o [i \in DOMAIN E |-> <<"  [cross mark] ", E[i]>>]
            warningsSection ==
                IF W = <<>> THEN <<>>
                ELSE <<<<"Warnings:">>>>
                     \o [i \in DOMAIN W |-> <<"  [warning sign]  ", W[i]>>]
        IN  /\ outcome.kind = "return"
            /\ outcome.value = <<>> <=> (E = <<>> /\ W = <<>>)
            /\ LinesOf(outcome.value) = errorsSection \o warningsSection
            /\ Len(LinesOf(outcome.value)) =
                  (IF Len(E) > 0 THEN 1 + Len(E) ELSE 0)
                  + (IF Len(W) > 0 THEN 1 + Len(W) ELSE 0)

\* One error and two warnings: five lines, the errors section first.
C18_Witness ==
    /\ Returned("formatValidationErrors")
    /\ Len(call.result.errors) = 1
    /\ Len(call.result.warnings) = 2
    /\ Len(LinesOf(outcome.value)) = 5
    /\ outcome.value[1] = "Validation Errors:"

\* The methods whose repeated calls are compared.
RepeatableOps ==
    {"validateEndpointExists", "validateSchemaExists", "validateResponseAgainstSchema",
     "getEndpointPaths", "getSchemaNames"}

\* C19: two calls of one method of a validator with the same arguments give
\* the caller structurally identical results (or the same throw), whatever
\* calls were made, and whatever the caller did to earlier results, in
\* between.
C19_RepeatedCallsAgree ==
    \A i \in DOMAIN history, j \in DOMAIN history :
        (i < j /\ history[i].call = history[j].call
         /\ history[i].call.op \in RepeatableOps)
        => history[j].outcome = history[i].outcome

\* A response is validated, another method is called, the caller changes
\* the first result, and the same validation is made again: the same two
\* errors.
C19_Witness ==
    /\ Len(history) = 3
    /\ spec = PetstoreDoc
    /\ history[1].call.op = "validateResponseAgainstSchema"
    /\ history[1].call.options = [omitted |-> TRUE]
    /\ history[2].call.op = "getSchemaNames"
    /\ history[3].call = history[1].call
    /\ heap[history[1].errorsRef] = ChangedByCaller
    /\ history[3].outcome = history[1].outcome
    /\ Len(history[3].outcome.value.errors) = 2

\* The references of the arrays of the results returned so far.
ResultRefs(h) ==
    {h[i].errorsRef : i \in {k \in DOMAIN h : h[k].errorsRef # 0}}
    \cup {h[i].warningsRef : i \in {k \in DOMAIN h : h[k].errorsRef # 0}}

\* C20: no operation changes the document the validator holds; a call
\* leaves the earlier calls' arguments and results, and every array
\* allocated before it, as they were; the errors and warnings arrays of a
\* returned ValidationResult are two new arrays, shared with no earlier result;
\* and the caller's change of a result changes nothing but that array.
C20_FrameAndFreshResults ==
    [][/\ spec' = spec
       /\ history' # history =>
            /\ Len(history') = Len(history) + 1
            /\ SubSeq(history', 1, Len(history)) = history
            /\ \A r \in DOMAIN heap : heap'[r] = heap[r]
            /\ history'[Len(history')].call = call'
            /\ history'[Len(history')].errorsRef # 0 =>
                 /\ history'[Len(history')].errorsRef \notin DOMAIN heap
                 /\ history'[Len(history')].warningsRef \notin DOMAIN heap
                 /\ history'[Len(history')].errorsRef # history'[Len(history')].warningsRef
                 /\ {history'[Len(history')].errorsRef,
                     history'[Len(history')].warningsRef} \cap ResultRefs(history) = {}
                 /\ outcome'.value.errors = heap'[history'[Len(history')].errorsRef]
                 /\ outcome'.value.warnings = heap'[history'[Len(history')].warningsRef]
       /\ history' = history => (call' = call /\ outcome' = outcome)
      ]_vars

\* The caller has changed the errors of a first result; a second, identical
\* call has returned errors of its own, equal to what the first call returned.
C20_Witness ==
    /\ Len(history) = 2
    /\ history[1].call.op = "validateSchemaExists"
    /\ history[2].call = history[1].call
    /\ history[1].errorsRef # history[2].errorsRef
    /\ heap[history[1].errorsRef] = ChangedByCaller
    /\ heap[history[2].errorsRef] = history[1].outcome.value.errors
    /\ Len(history[1].outcome.value.errors) = 1

\* The failures Ajv finds in the data of a SchemaValidator call, in order.
FailuresFound == AjvErrors(call.schema, call.data, "")

\* C21: when the data fails validation, validateSchema throws one
\* SchemaValidationError that holds every failure found, in order, and the
\* data, and whose message is the literal 'Schema validation failed:', one
\* line per failure and the data; when the data passes it returns the data.
C21_ValidateSchemaThrowsAllFailures ==
    (Ran("validateSchema") /\ AjvSchemaIsValid(call.schema)) =>
        /\ FailuresFound # <<>> =>
             /\ outcome.kind = "throw"
             /\ outcome.name = "SchemaValidationError"
             /\ outcome.errors = FailuresFound
             /\ outcome.data = call.data
             /\ outcome.message.literal = "Schema validation failed:"
             /\ Len(outcome.message.errorMessages) = Len(FailuresFound)
             /\ \A i \in DOMAIN FailuresFound :
                   /\ outcome.message.errorMessages[i].params = FailuresFound[i].params
                   /\ outcome.message.errorMessages[i].text =
                         "  - "
                         \o (IF FailuresFound[i].instancePath = "" THEN "root"
                             ELSE FailuresFound[i].instancePath)
                         \o ": " \o FailuresFound[i].message
             /\ outcome.message.data = call.data
        /\ FailuresFound = <<>> => outcome = [kind |-> "return", value |-> call.data]

\* An empty object against the pet schema: both missing required
\* properties are in the one error thrown.
C21_Witness ==
    /\ Ran("validateSchema")
    /\ call.schema = petSchema
    /\ call.data = JObj({})
    /\ outcome.kind = "throw"
    /\ Len(outcome.errors) = 2
    /\ Len(outcome.message.errorMessages) = 2

\* C22: assertValid returns the data exactly when validateSchema returns, and
\* otherwise throws the structured validation error, with the full list of
\* failures and the data, whose message has the context label added.
C22_AssertValidRethrowsStructured ==
    Ran("assertValid") =>
        LET inner == validateSchema(call.schema, call.data)
        IN  /\ inner.kind = "return" <=> outcome.kind = "return"
            /\ inner.kind = "return" => outcome.value = call.data
            /\ (inner.kind = "throw" /\ inner.name = "SchemaValidationError") =>
                 /\ outcome.name = "SchemaValidationError"
                 /\ outcome.errors = FailuresFound
                 /\ outcome.data = call.data
                 /\ (call.context.given /\ call.context.v # "") =>
                        outcome.message.contextMsg = " (" \o call.context.v \o ")"

\* C23: a request whose response arrived throws exactly when expectSuccess
\* (TRUE when left out) holds and the status is outside 200..299; otherwise
\* it returns {status, json, ok, statusText} of the response, json being
\* null when the body does not parse, so with expectSuccess FALSE no status
\* makes it throw.
C23_ThrowsIffExpectSuccessAndNotOk ==
    exchange.made.sent =>
        LET expect == IF exchange.flag.given THEN exchange.flag.v ELSE TRUE
            response == exchange.made.response
            success == response.status \in 200..299
            result == exchange.made.result
        IN  /\ result.kind = "throw" <=> (expect /\ ~success)
            /\ result.kind \in {"throw", "return"}
            /\ result.kind = "return" =>
                 /\ result.value.status = response.status
                 /\ result.value.ok = success
                 /\ result.value.statusText = response.statusText
                 /\ result.value.json = IF response.body.parses
                                        THEN response.body.value ELSE JNull

\* getPetById(1, false) answered 404 with a body that is not JSON returns
\* the status with json null.
C23_Witness ==
    /\ exchange.op = "getPetById"
    /\ exchange.flag = Flag(FALSE)
    /\ exchange.made.sent
    /\ exchange.made.response.status = 404
    /\ ~exchange.made.response.body.parses
    /\ exchange.made.result.kind = "return"
    /\ exchange.made.result.value.json = JNull
    /\ ~exchange.made.result.value.ok

\* The value last written to a credential: by the latest of its own setter
\* and clearAuth, or the value it started with.
RECURSIVE LastWritten(_, _, _)
LastWritten(writes, setter, initial) ==
    IF writes = <<>> THEN initial
    ELSE LET last == writes[Len(writes)]
         IN  IF last.op = setter THEN last.v
             ELSE IF last.op = "clearAuth" THEN Unset
             ELSE LastWritten(SubSeq(writes, 1, Len(writes) - 1), setter, initial)

CurrentKey ==
    LastWritten(log, "setApiKey",
                IF env.PETSTORE_API_KEY.defined /\ env.PETSTORE_API_KEY.v # ""
                THEN env.PETSTORE_API_KEY ELSE env.API_KEY)
CurrentToken == LastWritten(log, "setOAuthToken", env.PETSTORE_OAUTH_TOKEN)
NonEmpty(x) == x.defined /\ x.v # ""

\* C24: after any writes, getAuthHeaders() has api_key, with the value k,
\* exactly when the key last written, k, is non-empty, and Authorization,
\* with 'Bearer ' + t, exactly when the token last written, t, is non-empty,
\* and nothing else; hasApiKey() and hasOAuthToken() hold exactly when their
\* header is there; right after clearAuth() the headers are empty and
\* hasAnyAuth() is false.
C24_AuthHeadersReflectLastWrites ==
    LET headers == getAuthHeaders(apiKey, oauthToken)
    IN  /\ HasHeader(headers, "api_key") <=> NonEmpty(CurrentKey)
        /\ NonEmpty(CurrentKey) => <<"api_key", CurrentKey.v>> \in headers
        /\ HasHeader(headers, "Authorization") <=> NonEmpty(CurrentToken)
        /\ NonEmpty(CurrentToken) =>
              <<"Authorization", "Bearer " \o CurrentToken.v>> \in headers
        /\ Cardinality(headers) =
              (IF NonEmpty(CurrentKey) THEN 1 ELSE 0)
              + (IF NonEmpty(CurrentToken) THEN 1 ELSE 0)
        /\ hasApiKey(apiKey) <=> HasHeader(headers, "api_key")
        /\ hasOAuthToken(oauthToken) <=> HasHeader(headers, "Authorization")
        /\ (log # <<>> /\ log[Len(log)].op = "clearAuth") =>
              headers = {} /\ ~hasAnyAuth(apiKey, oauthToken)

\* A process started with a key and a token in its environment, after
\* clearAuth() and setApiKey('key-2'): only the new key is in the headers.
C24_Witness ==
    /\ env.API_KEY = Str("env-key")
    /\ env.PETSTORE_OAUTH_TOKEN = Str("env-token")
    /\ Len(log) = 2
    /\ log[1].op = "clearAuth"
    /\ log[2] = [op |-> "setApiKey", v |-> Str("key-2")]
    /\ getAuthHeaders(apiKey, oauthToken) = {<<"api_key", "key-2">>}

\* C30: a request sent after clearAuth(), before any later setApiKey or
\* setOAuthToken, carries neither api_key nor Authorization, whatever the
\* environment held when the process started; every request carries Accept
\* and Content-Type 'application/json'.
C30_NoCredentialsSentAfterClearAuth ==
    exchange.made.sent =>
        /\ <<"Accept", "application/json">> \in exchange.made.headers
        /\ <<"Content-Type", "application/json">> \in exchange.made.headers
        /\ (log # <<>> /\ log[Len(log)].op = "clearAuth") =>
              /\ ~HasHeader(exchange.made.headers, "api_key")
              /\ ~HasHeader(exchange.made.headers, "Authorization")

\* The present properties with a $ref whose value is an object or an array
\* (typeof 'object', not null).
RefProperties == {i \in PresentProperties : ResolvedThroughRef(i)}

\* C25: a property with a $ref whose value is a non-null object contributes
\* exactly the errors and the warnings of validating that value against the
\* definition named by the last segment of the $ref, in that order and with
\* no prefix; type, enum and items of the same field schema add nothing.
C25_RefFieldIsNestedValidation ==
    ObjectCall =>
        \A i \in RefProperties :
            LET p == CalledSchema.properties[i]
                nested == validateResponseAgainstSchema(spec, FieldValue(i),
                                                        LastSegment(p.schema.ref),
                                                        Omitted)
            IN  /\ nested.kind = "return"
                /\ FieldRun(i).kind = "return"
                /\ FieldRun(i).value.errors = nested.value.errors
                /\ FieldRun(i).value.warnings = nested.value.warnings
                /\ \A k \in DOMAIN outcome.value.errors :
                      outcome.value.errors[k].kind \in {"TypeMismatch", "EnumMismatch"}
                          => outcome.value.errors[k].field # p.name

\* A category that lacks the id the referenced definition requires, under a
\* field schema that also declares type 'string' and an enum: the one error
\* is the nested one, unprefixed.
C25_Witness ==
    /\ ObjectCall
    /\ spec = EdgeDoc
    /\ call.schemaName = "Pet"
    /\ \E i \in RefProperties :
          /\ CalledSchema.properties[i].name = "category"
          /\ CalledSchema.properties[i].schema.type = "string"
          /\ CalledSchema.properties[i].schema.hasEnum
          /\ FieldValue(i) = JObj({<<"name", JStr("available")>>})
          /\ FieldErrors(i) = <<RequiredMissingMsg("id")>>
    /\ Has(outcome.value.errors, RequiredMissingMsg("id"))

\* The $ref names a definition the document lacks.
Dangling(ref) ==
    /\ Len(ref) # 0
    /\ \A d \in DOMAIN spec.definitions : spec.definitions[d].name # LastSegment(ref)

\* The error entries that report the schema `name` as missing, as such or
\* as the error of an array element.
ReportsMissingSchema(error, name) ==
    \/ error = SchemaNotFoundMsg(name)
    \/ error.kind = "ItemError" /\ error.err = SchemaNotFoundMsg(name)

\* C26: for a present property whose schema, or whose items schema, has a
\* $ref to a definition the document lacks, the call returns, and its result
\* is invalid with an error reporting the missing schema, whatever the kind
\* of the value.
C26_DanglingRefIsDataError ==
    (Ran("validateResponseAgainstSchema") /\ CalledSchemaExists
     /\ call.response.t = "object") =>
        \A i \in PresentProperties :
            LET fieldSchema == CalledSchema.properties[i].schema
                missing == IF Dangling(fieldSchema.ref) THEN LastSegment(fieldSchema.ref)
                           ELSE IF Dangling(fieldSchema.items.ref)
                           THEN LastSegment(fieldSchema.items.ref)
                           ELSE ""
            IN  missing # "" =>
                  /\ outcome.kind = "return"
                  /\ ~outcome.value.valid
                  /\ \E k \in DOMAIN outcome.value.errors :
                        ReportsMissingSchema(outcome.value.errors[k], missing)

\* The present properties whose schema has an enum, no type and no $ref.
EnumOnlyProperties ==
    {i \in PresentProperties :
        /\ CalledSchema.properties[i].schema.hasEnum
        /\ CalledSchema.properties[i].schema.type = ""
        /\ Len(CalledSchema.properties[i].schema.ref) = 0}

\* C27: a present property whose schema has an enum but no type (and no
\* $ref) adds no error, whatever its value.
C27_EnumWithoutTypeIsNotChecked ==
    ObjectCall =>
        \A i \in EnumOnlyProperties :
            /\ FieldRun(i) = Return(ValidationResult(TRUE, <<>>, <<>>))
            /\ \A k \in DOMAIN outcome.value.errors :
                  outcome.value.errors[k].kind \in {"TypeMismatch", "EnumMismatch"}
                      => outcome.value.errors[k].field # CalledSchema.properties[i].name

\* A name that is a number, outside the enum of strings: the only error of
\* the call is the missing required id.
C27_Witness ==
    /\ ObjectCall
    /\ spec = EdgeDoc
    /\ call.schemaName = "Pet"
    /\ call.options = Omitted
    /\ call.response = JObj({<<"name", JNum(50)>>})
    /\ EnumOnlyProperties # {}
    /\ outcome.value.errors = <<RequiredMissingMsg("id")>>

\* The present properties whose schema is a $ref alone and whose value is
\* null or a primitive.
RefOnlyPrimitives ==
    {i \in PresentProperties :
        /\ Len(CalledSchema.properties[i].schema.ref) # 0
        /\ CalledSchema.properties[i].schema.type = ""
        /\ ~CalledSchema.properties[i].schema.hasEnum
        /\ FieldValue(i).t \notin {"object", "array"}}

\* The object `response` with its property `name` valued `value`.
WithProperty(response, name, value) ==
    JObj({pr \in response.v : pr[1] # name} \cup {<<name, value>>})

\* The objects that conform to the definition `name`.
Conforming(name) ==
    {v \in InnerObjects :
        validateResponseAgainstSchema(spec, v, name, Omitted)
            = Return(ValidationResult(TRUE, <<>>, <<>>))}

\* C28: a present property whose schema is only a $ref and whose value is
\* null or a primitive is not validated: it adds no error and no warning,
\* and the call ends as it does on the value with a conforming object in
\* its place.
C28_RefWithPrimitiveIsNotValidated ==
    (Ran("validateResponseAgainstSchema") /\ CalledSchemaExists
     /\ call.response.t = "object") =>
        \A i \in RefOnlyPrimitives :
            /\ FieldRun(i) = Return(ValidationResult(TRUE, <<>>, <<>>))
            /\ \A v \in Conforming(LastSegment(CalledSchema.properties[i].schema.ref)) :
                  outcome = validateResponseAgainstSchema(
                               spec,
                               WithProperty(call.response, CalledSchema.properties[i].name, v),
                               call.schemaName, call.options)

\* A pet whose category is a string and whose name is ill typed: the call
\* reports what it reports with a conforming category, the name and not the
\* category.
C28_Witness ==
    /\ ObjectCall
    /\ spec = PetstoreDoc
    /\ call.schemaName = "Pet"
    /\ \E i \in RefOnlyPrimitives :
          /\ CalledSchema.properties[i].name = "category"
          /\ FieldValue(i) = JStr("bogus")
          /\ Conforming(LastSegment(CalledSchema.properties[i].schema.ref)) # {}
    /\ ~outcome.value.valid

\* The nesting depth of a JSON value: 0 for null and the primitives, and one
\* more than its deepest member for an object or an array.
RECURSIVE Depth(_)
Depth(value) ==
    LET members == IF value.t = "object" THEN {pr[2] : pr \in value.v}
                   ELSE IF value.t = "array" THEN {value.v[k] : k \in DOMAIN value.v}
                   ELSE {}
        depths == {Depth(m) : m \in members}
    IN  IF value.t \notin {"object", "array"} THEN 0
        ELSE IF depths = {} THEN 1
        ELSE 1 + CHOOSE d \in depths : \A e \in depths : e <= d

\* `inner` is a member of `value`, or a member of one of its members.
RECURSIVE Within(_, _)
Within(inner, value) ==
    LET members == IF value.t = "object" THEN {pr[2] : pr \in value.v}
                   ELSE IF value.t = "array" THEN {value.v[k] : k \in DOMAIN value.v}
                   ELSE {}
    IN  \E m \in members : m = inner \/ Within(inner, m)

WalkDone == walk.status \in {"returned", "threw"}

\* C29: a call of validateResponseAgainstSchema ends, by returning or by
\* throwing, for every value and every document, also when the definitions
\* refer to themselves or to each other; every nested call is on a value
\* strictly inside the value of the call that makes it, so the nested calls
\* are never deeper than the value is; and the call ends by throwing
\* exactly when the validator's result is a throw.
C29_ValidationTerminates ==
    /\ <>WalkDone
    /\ [](Len(stack) <= 1 + Depth(call.response))
    /\ [](\A k \in 2..Len(stack) :
            /\ Within(stack[k].response, stack[k - 1].response)
            /\ Depth(stack[k].response) < Depth(stack[k - 1].response))
    /\ [](WalkDone =>
            ((walk.status = "threw")
             <=> (validateResponseAgainstSchema(spec, call.response, call.schemaName,
                                                Omitted).kind = "throw")))

\* A chain of categories, each validated against the definition that refers
\* to itself: the call has returned, having been MaxDepth nested calls deep.
C29_Witness ==
    /\ spec = EdgeDoc
    /\ call.schemaName = "Category"
    /\ call.response = Chain(MaxDepth)
    /\ walk.status = "returned"
    /\ walk.deepest = MaxDepth + 1
    /\ stack = <<>>

====
